---------------------------- MODULE Spec2Model ----------------------------
(***************************************************************************)
(* Storage-server write path and name-server access gate of the           *)
(* distributed file system (src/storageserver, src/nameserver).           *)
(*                                                                         *)
(* Text is a sequence of one-character strings.  A file on disk is either  *)
(* such a sequence or NoFile (the path does not exist).  Every whole-file  *)
(* system call sequence on one path (open/read*/close, open/write*/close,  *)
(* rename, unlink) is one atomic step; steps of different threads          *)
(* interleave freely unless a lock taken by the code forbids it.           *)
(***************************************************************************)
EXTENDS Integers, Sequences, FiniteSets, TLC

\* a missing file: texts are sequences of single characters, so no text equals it
NoFile == <<"ENOENT">>
None == "None"

-----------------------------------------------------------------------------
(* Text: ss_file_manager.c, "Sentence/Word Parsing" *)

IsDelim(c) == c \in {".", "!", "?"}

IsSpace(c) == c = " "

\* isspace-trimming loop of ss_split_sentences ("while (*start && isspace(*start)) start++")
RECURSIVE TrimLeading(_)
TrimLeading(s) ==
  IF s = <<>> THEN <<>>
  ELSE IF IsSpace(Head(s)) THEN TrimLeading(Tail(s)) ELSE s

RECURSIVE SplitSentencesFrom(_, _, _, _)
SplitSentencesFrom(text, ptr, start, acc) ==
  IF ptr > Len(text)
  THEN IF start < ptr
       THEN LET rest == TrimLeading(SubSeq(text, start, Len(text)))
            IN  IF rest # <<>> THEN Append(acc, rest) ELSE acc
       ELSE acc
  ELSE IF IsDelim(text[ptr])
       THEN SplitSentencesFrom(text, ptr + 1, ptr + 1,
                               Append(acc, SubSeq(text, start, ptr)))
       ELSE SplitSentencesFrom(text, ptr + 1, start, acc)

ss_split_sentences(text) == SplitSentencesFrom(text, 1, 1, <<>>)

RECURSIVE SplitWordsFrom(_, _, _, _)
SplitWordsFrom(s, ptr, word, acc) ==
  LET flushed == IF word = <<>> THEN acc ELSE Append(acc, word)
  IN  IF ptr > Len(s) THEN flushed
      ELSE IF IsSpace(s[ptr]) THEN SplitWordsFrom(s, ptr + 1, <<>>, flushed)
      ELSE IF IsDelim(s[ptr])
           THEN SplitWordsFrom(s, ptr + 1, <<>>, Append(flushed, <<s[ptr]>>))
           ELSE SplitWordsFrom(s, ptr + 1, Append(word, s[ptr]), acc)

ss_split_words(sentence) == SplitWordsFrom(sentence, 1, <<>>, <<>>)

IsDelimWord(w) == Len(w) = 1 /\ IsDelim(w[1])

RECURSIVE JoinWordsFrom(_, _)
JoinWordsFrom(words, i) ==
  IF i > Len(words) THEN <<>>
  ELSE words[i]
       \o (IF i < Len(words) /\ ~IsDelimWord(words[i + 1]) THEN <<" ">> ELSE <<>>)
       \o JoinWordsFrom(words, i + 1)

ss_join_words(words) == JoinWordsFrom(words, 1)

RECURSIVE ss_join_sentences(_)
ss_join_sentences(sentences) ==
  IF sentences = <<>> THEN <<>>
  ELSE Head(sentences) \o ss_join_sentences(Tail(sentences))


-----------------------------------------------------------------------------
(* Bounds of the model and the inputs the clients draw from *)

MaxTxn == 3

MaxData == 1

MaxOps == 2

\* "int new_capacity = sentence_num + 10; // Grow by 10"
SentenceLockGrow == 10

Writers == {"w1", "w2"}

OpClient == "c"

SentenceNums == {0, 2, 10}

Tags == {"v1"}

TextOne == <<"O","n","e","."," ","T","w","o","."," ","T","h","r","e","e",".">>

TextHi == <<"H","i">>

TextNew == <<"N","e","w">>

TextTwoSent == <<"x","."," ","y">>

DataMsgs ==
  { [word_index |-> 0, content |-> TextHi],
    [word_index |-> 0, content |-> TextNew],
    [word_index |-> 0, content |-> TextTwoSent],
    [word_index |-> 2, content |-> <<"z">>] }

\* the WRITE requests explored next to UNDO, REVERT, CHECKPOINT, DELETE, CREATE
MaxOpTxn == 2

OpSentenceNums == {0}

\* the indexes of the WRITE requests whose answer is compared with the
\* number of sentences: req->sentence_num is an int the client sets with atoi
IndexNums == {-1, 0, 1, 3}

SwapNums == SentenceNums \cup IndexNums

OpDataMsgs == {[word_index |-> 0, content |-> TextHi]}

\* WRITE_DATA messages of one transaction, and messages whose word index is
\* negative or beyond the words of sentence 0 among them
MaxDataSeq == 2

WordMsgs ==
  { [word_index |-> -1, content |-> <<"z">>],
    [word_index |-> 0, content |-> TextHi],
    [word_index |-> 3, content |-> <<"z">>] }

-----------------------------------------------------------------------------
(* State of one storage server holding the file F of one owner *)

VARIABLES
  files,          \* files/F : text or NoFile
  undo,           \* undo/F
  swap,           \* swap/F_swap_<n>, n \in SentenceNums
  checkpoints,    \* checkpoints/F_<tag>
  tmpfile,        \* files/F.tmp (ss_handle_undo)
  meta,           \* metadata table entry of F, or NoMeta
  mapped,         \* the name server holds a file-map record for (owner, F)
  sentence_capacity, \* FileLock.sentence_capacity
  lock_gen,       \* identity of the block FileLock.sentence_locks points to
  locked,         \* indexes of the mutexes of that block that are locked
  file_lock,      \* FileLock.file_lock: the thread holding it for writing, or None
  repl_queue,     \* g_repl_queue
  wtx,            \* per writer thread: the locals of ss_handle_write_transaction
  op,             \* the locals of the handler serving the other client
  txnCount,       \* WRITE requests received so far
  opCount,        \* other requests received so far
  initText,       \* history: files/F in the initial state
  log,            \* history: the committed WRITE transactions, in commit order
  otherMut,       \* history: UNDO, REVERT, DELETE or CREATE has changed files/F
  lastCommit,     \* history: the last WRITE commit
  lastMut,        \* history: the last successful mutation of F
  undoPrev,       \* history: files/F before the previous UNDO, if it was the last mutation
  undoPair,       \* history: the last pair of consecutive UNDOs
  delRace,        \* history: files/F was unlinked while a swap file existed
  closedCommit    \* history: a transaction committed after its client had closed

ssVars == <<files, undo, swap, checkpoints, tmpfile, meta, mapped,
            sentence_capacity, lock_gen, locked, file_lock, repl_queue,
            wtx, op, txnCount, opCount>>

histVars == <<initText, log, otherMut, lastCommit, lastMut, undoPrev, undoPair,
              delRace, closedCommit>>

-----------------------------------------------------------------------------
(* State of the name server, of the storage servers as it sees them, and of *)
(* the files each storage server keeps, by file name                        *)

Users == {"alice", "bob"}

\* targets of ADDACCESS / REMACCESS: the registered users and one other name
Targets == Users \cup {"nobody"}

Filenames == {"F"}

Servers == {1, 2}

MaxReq == 5

VARIABLES
  access_table,   \* g_access_table: user -> file name -> permission string
  file_map,       \* g_file_map_table: (owner, file name) -> primary_ss_id, 0 = no record
  ss_online,      \* StorageServer.is_online
  file_count,     \* StorageServer.file_count
  ss_files,       \* per storage server: files/<name>
  ss_owner,       \* per storage server: the owner in the metadata entry of <name>
  ticket,         \* per user: the storage server location the name server answered
  reqCount,       \* requests the name server has received
  lastReq,        \* history: the last request and its answer
  own             \* history: per (owner, name) the content its own operations gave it

nsVars == <<access_table, file_map, ss_online, file_count, ss_files, ss_owner,
            ticket, reqCount, lastReq, own>>

-----------------------------------------------------------------------------
(* A client reading F from the storage server (ss_handle_read)              *)

\* fread(chunk.data, 1, MAX_PAYLOAD, f), with MAX_PAYLOAD scaled down
MaxChunk == 8

MaxReads == 2

MaxReplIn == 2

MaxCkpt == 1

MaxOutage == 1

\* "if (retry_counts[idx] < 5)"
RetryLimit == 5

MaxReconnects == 2

MaxWritesD == 2

MaxCOps == 3

MaxSessions == 3

MaxNames == 6

MaxMFiles == 2

MaxSize == 1

\* connections one storage server opens to the name server, one after the other
MaxConns == 3

Conns == 1..MaxConns

\* the threads that take locks, the sentences two writers work on and the
\* locks: on a storage server the sentence mutexes, the file's rwlock, the
\* outer bucket locks of the metadata table in index order and its count
\* lock; on the name server the four global mutexes
LkThreads == {"k1", "k2", "k3"}

LkSentences == {"sentence0", "sentence1"}

MetaBuckets == <<"bucket0", "bucket1">>

LkLocks == LkSentences \cup {"file", "bucket0", "bucket1", "count",
                             "ss_list", "cache", "access_table", "access_req"}

IdleLk == [fn |-> "idle", sentence |-> "sentence0", full |-> TRUE]

\* INITIAL_FILE_TABLE_SIZE: the slots of a user's file table
FileTableSize == 11

\* the file names the clients of the ring create and delete
CFiles == {"a"}

\* "reg.file_count = 0; // We will load files AFTER we learn our SS ID"
RegFileCount == 0

\* the machines that run a storage server, by ip and client port
Machines == {"m0", "m1", "m2"}

NoSS == "none"

\* the client connections the name server accepts
Sessions == 1..MaxSessions

\* the file names the users create, by number
ANames == 1..MaxNames

NoCreate == [user |-> None, filename |-> 0, reply |-> None]

\* the files of one storage server, numbered in the order in which
\* metadata_table_save comes upon their entries (outer bucket, inner bucket,
\* place in the chain)
MFiles == 1..MaxMFiles

\* no entry; an entry is the size the file had when the entry was written
Absent == -1

\* the threads of handle_connection that serve requests at the same time
MThreads == {"h1", "h2"}

IdleThread == [pc |-> "idle", op |-> None, f |-> 0]

\* the usernames the clients log in with
LoginNames == {"alice", "bob", "nobody"}

\* a connection that is closed, or not made yet
NoSession == [state |-> "closed", username |-> ""]

VARIABLES
  rd,             \* the locals of ss_handle_read: the open file, position, bytes sent
  readCount,      \* READ requests received so far
  lastRead,       \* history: the last completed READ
  rin,            \* the locals of handle_replication_receive
  rinCount,       \* connections accepted by the replication listener so far
  ck2,            \* the locals of ss_handle_checkpoint on a second connection
  ck2Count,       \* CHECKPOINT requests received on that connection so far
  rw,             \* the locals of the replication worker; job: the job it took last
  retry_count,    \* retry_counts[_hash_filename(F) % 1024]
  backup_up,      \* the backup target accepts connections
  outages,        \* times the backup target has gone down so far
  bfile,          \* files/F on the backup target
  delPassed,      \* history: a DELETE was taken while a re-queued UPDATE waited
  lastSend,       \* history: the last REPLICATE_FILE sent
  ring,           \* g_ss_list_head and the next pointers: the ring, head first
  ss_node,        \* the StorageServer node of each machine
  dfile,          \* files/d.txt on each machine
  dmap,           \* the file map entry of d.txt: primary_ss_id, backup_ss_id
  rec,            \* the recovery the name server started last
  lastRecovery,   \* history: whom that recovery was for and whom it asked
  reconnects,     \* registrations of a known machine so far
  dwrites,        \* writes to d.txt so far
  is_syncing,     \* StorageServer.is_syncing of each machine
  ring_file_count,\* StorageServer.file_count of each machine
  ring_file_map,  \* g_file_map_table: file name -> primary_ss_id, backup_ss_id
  sfile,          \* per machine and file name: "none", or the file is there
                  \* and its metadata says "primary" or "backup"
  repl_jobs,      \* g_repl_queue of each machine
  sync_wait,      \* the pair the name server flagged, while it waits for the ACK
  file_cache,     \* g_file_cache: file name -> the server cached for it
  lastFind,       \* history: the last call of find_ss_for_file and its result
  cops,           \* CREATE and DELETE requests received so far
  user_list,      \* g_user_list: the entries (username, is_active), oldest first
  user_db,        \* the user registry file, as save_user_list wrote it last
  session,        \* the UserSession of each client connection
  holder,         \* history: per username, the connection whose LOGIN set the flag
  perm_tab,       \* g_access_table: per user, the file table, file name -> perms
  perm_db,        \* permission_db/<user>, as user_ht_save wrote it last
  own_map,        \* g_file_map_table: the (owner, file name) pairs with a record
  lastCreate,     \* history: the last CREATE and the reply to it
  mtab,           \* g_metadata_table: per file, the entry or Absent
  mcount,         \* g_metadata_table->count
  mdb,            \* metadata.db: the count written first, then the entries
  pfile,          \* files/<name> exists
  mlock,          \* the thread that holds the file's write lock
  mth,            \* the handler threads: position, operation, file
  acked,          \* history: per file, the entry as the last replied
                  \* operation left it
  hb_online,      \* StorageServer.is_online of one storage server's node
  hb_sock,        \* StorageServer.sock_fd: the connection, or -1
  hb_stale,       \* time(NULL) - last_heartbeat > HEARTBEAT_TIMEOUT
  hb_active,      \* g_ss_active_count
  hb_link,        \* per connection: none, live (the server sends heartbeats), broken
  hb_thread,      \* per connection: the position of its ss_handler_thread
  hb_open,        \* per connection: the name server's socket is open
  lk_pc,          \* per thread: the handler it runs and its next lock call
  lk_held,        \* per lock: the threads that hold it
  lk_writer       \* per lock: it is held for writing (or is a held mutex)

rdVars == <<rd, readCount, lastRead>>

rinVars == <<rin, rinCount>>

ckVars == <<ck2, ck2Count>>

rpVars == <<rw, retry_count, backup_up, outages, bfile, delPassed, lastSend>>

ringVars == <<ring, ss_node, dfile, dmap, rec, lastRecovery, reconnects, dwrites>>

clVars == <<is_syncing, ring_file_count, ring_file_map, sfile, repl_jobs, sync_wait,
            file_cache, lastFind, cops>>

usVars == <<user_list, user_db, session, holder>>

acVars == <<perm_tab, perm_db, own_map, lastCreate>>

mdVars == <<mtab, mcount, mdb, pfile, mlock, mth, acked>>

hbVars == <<hb_online, hb_sock, hb_stale, hb_active, hb_link, hb_thread, hb_open>>

lkVars == <<lk_pc, lk_held, lk_writer>>

extVars == <<rdVars, rinVars, ckVars, rpVars, ringVars, clVars, usVars, acVars,
             mdVars, hbVars, lkVars>>

\* what the handlers of each group leave alone among these
rdOthers == <<rinVars, ckVars, rpVars, ringVars, clVars, usVars, acVars, mdVars,
             hbVars, lkVars>>

rinOthers == <<ckVars, rpVars, ringVars, clVars, usVars, acVars, mdVars, hbVars,
             lkVars>>

ckOthers == <<rdVars, rinVars, rpVars, ringVars, clVars, usVars, acVars, mdVars,
             hbVars, lkVars>>

rpOthers == <<rdVars, rinVars, ckVars, ringVars, clVars, usVars, acVars, mdVars,
             hbVars, lkVars>>

ringOthers == <<rdVars, rinVars, ckVars, rpVars, usVars, acVars, mdVars, hbVars,
             lkVars>>

usOthers == <<rdVars, rinVars, ckVars, rpVars, ringVars, clVars, acVars, mdVars,
             hbVars, lkVars>>

acOthers == <<rdVars, rinVars, ckVars, rpVars, ringVars, clVars, usVars, mdVars,
             hbVars, lkVars>>

mdOthers == <<rdVars, rinVars, ckVars, rpVars, ringVars, clVars, usVars, acVars, hbVars,
             lkVars>>

hbOthers == <<rdVars, rinVars, ckVars, rpVars, ringVars, clVars, usVars, acVars, mdVars, lkVars>>

lkOthers == <<rdVars, rinVars, ckVars, rpVars, ringVars, clVars, usVars, acVars, mdVars, hbVars>>

IdleTx ==
  [pc |-> "idle", sentence_num |-> 0, ptr_gen |-> 0, holds |-> FALSE,
   sentences |-> <<>>, words |-> <<>>, ops |-> <<>>, current |-> <<>>,
   atLock |-> NoFile,
   closed |-> FALSE, reply |-> None]

IdleOp == [pc |-> "idle", tag |-> None, reply |-> None]

\* counts recomputed by the mutators (WRITE step 13, UNDO step 5, REVERT)
RECURSIVE CountWords(_)
NoMeta == [owner |-> "", size |-> 0, words |-> 0, chars |-> 0, is_backup |-> FALSE]

CountWords(sentences) ==
  IF sentences = <<>> THEN 0
  ELSE Len(ss_split_words(Head(sentences))) + CountWords(Tail(sentences))

MetaOf(text, old) ==
  IF old = NoMeta THEN NoMeta
  ELSE [old EXCEPT !.size = Len(text),
                   !.words = CountWords(ss_split_sentences(text)),
                   !.chars = Len(text)]

NewMeta == [owner |-> "alice", size |-> 0, words |-> 0, chars |-> 0, is_backup |-> FALSE]

InitFresh ==
  /\ files = <<>>
  /\ undo = NoFile
  /\ meta = NewMeta
  /\ sentence_capacity = 0
  /\ lock_gen = 0

\* the state after CREATE and one WRITE 0 of "One. Two. Three."
InitWritten ==
  /\ files = TextOne
  /\ undo = <<>>
  /\ meta = MetaOf(TextOne, NewMeta)
  /\ sentence_capacity = SentenceLockGrow
  /\ lock_gen = 0

\* the state after one incoming replication of "One. Two. Three.": the file
\* is the copy of another server's file
InitCopy ==
  /\ files = TextOne
  /\ undo = NoFile
  /\ meta = [owner |-> "alice", size |-> Len(TextOne), words |-> 0, chars |-> 0,
             is_backup |-> TRUE]
  /\ sentence_capacity = 0
  /\ lock_gen = 0

\* the history variables before anything has been recorded
NoCommit == [pre |-> NoFile, sentence_num |-> -1, new_sentence |-> <<>>, post |-> NoFile]
NoMut == [kind |-> None, pre |-> NoFile, undoAfter |-> NoFile]
NoPair == [pre |-> NoFile, post |-> NoFile]

\* permission strings, as handle_create and handle_access_cmd write them
PermOwner == <<"r", "w", "o">>

PermReadWrite == <<"r", "e", "a", "d", "-", "w", "r", "i", "t", "e">>

PermRead == <<"r", "e", "a", "d">>

\* user_ht_get_permission returned NULL
NoPerm == <<>>

NoTicket == [type |-> None, filename |-> None, ss |-> 0, owner |-> None]

NoReq == [user |-> None, type |-> None, filename |-> None, perms |-> NoPerm,
          reply |-> None]

\* the name server has started, both storage servers have registered, no
\* file exists
NSStart ==
  /\ access_table = [u \in Users |-> [f \in Filenames |-> NoPerm]]
  /\ file_map = [u \in Users |-> [f \in Filenames |-> 0]]
  /\ ss_online = [s \in Servers |-> TRUE]
  /\ file_count = [s \in Servers |-> 0]
  /\ ss_files = [s \in Servers |-> [f \in Filenames |-> NoFile]]
  /\ ss_owner = [s \in Servers |-> [f \in Filenames |-> None]]
  /\ ticket = [u \in Users |-> NoTicket]
  /\ reqCount = 0
  /\ lastReq = NoReq
  /\ own = [u \in Users |-> [f \in Filenames |-> NoFile]]

SSStart ==
  /\ swap = [n \in SwapNums |-> NoFile]
  /\ checkpoints = [g \in Tags |-> NoFile]
  /\ tmpfile = NoFile
  /\ mapped = TRUE
  /\ locked = {}
  /\ file_lock = None
  /\ repl_queue = <<>>
  /\ wtx = [t \in Writers |-> IdleTx]
  /\ op = IdleOp
  /\ txnCount = 0
  /\ opCount = 0
  /\ initText = files
  /\ log = <<>>
  /\ otherMut = FALSE
  /\ lastCommit = NoCommit
  /\ lastMut = NoMut
  /\ undoPrev = NoFile
  /\ undoPair = NoPair
  /\ delRace = FALSE
  /\ closedCommit = FALSE

\* snap: the content of the file the reader has open; linked: that file is
\* still the one files/F names; first: history, the content when the first
\* chunk was read; flags: history, is_final_chunk of each chunk sent
IdleRd ==
  [pc |-> "idle", pos |-> 0, got |-> <<>>, snap |-> NoFile, linked |-> FALSE,
   first |-> NoFile, flags |-> <<>>, reply |-> None]

NoRead == [content |-> NoFile, committed |-> NoFile, version |-> NoFile, openTx |-> {}]

RdStart ==
  /\ rd = IdleRd
  /\ readCount = 0
  /\ lastRead = NoRead

IdleRin == [pc |-> "idle", data |-> <<>>]

RinStart ==
  /\ rin = IdleRin
  /\ rinCount = 0

CkStart ==
  /\ ck2 = IdleOp
  /\ ck2Count = 0

IdleRw == [pc |-> "idle", job |-> None, opened |-> NoFile]

NoSend == [is_backup |-> FALSE, data |-> NoFile]

\* the backup target holds what the primary holds
RpStart ==
  /\ rw = IdleRw
  /\ retry_count = 0
  /\ backup_up = TRUE
  /\ outages = 0
  /\ bfile = files
  /\ delPassed = FALSE
  /\ lastSend = NoSend

NoNode == [known |-> FALSE, is_online |-> FALSE, backup_ss_id |-> NoSS]

NoMap == [primary_ss_id |-> NoSS, backup_ss_id |-> NoSS]

IdleRec == [pc |-> "idle", R |-> NoSS, source |-> NoSS, port |-> None, complete |-> FALSE]

NoRecovery == [R |-> NoSS, source |-> NoSS, backup_ss_id |-> NoSS]

\* the name server has started and no storage server has registered
RingStart ==
  /\ ring = <<>>
  /\ ss_node = [m \in Machines |-> NoNode]
  /\ dfile = [m \in Machines |-> NoFile]
  /\ dmap = NoMap
  /\ rec = IdleRec
  /\ lastRecovery = NoRecovery
  /\ reconnects = 0
  /\ dwrites = 0

NoWait == [R |-> NoSS, source |-> NoSS]

NoFind == [f |-> None, map |-> NoMap, online |-> {}, result |-> NoSS]

\* no file has been created through the name server
ClStart ==
  /\ is_syncing = [m \in Machines |-> FALSE]
  /\ ring_file_count = [m \in Machines |-> 0]
  /\ ring_file_map = [f \in CFiles |-> NoMap]
  /\ sfile = [m \in Machines |-> [f \in CFiles |-> "none"]]
  /\ repl_jobs = [m \in Machines |-> <<>>]
  /\ sync_wait = NoWait
  /\ file_cache = [f \in CFiles |-> NoSS]
  /\ lastFind = NoFind
  /\ cops = 0

\* load_user_list of an empty registry file; no client has connected
UsStart ==
  /\ user_list = <<>>
  /\ user_db = <<>>
  /\ session = [s \in Sessions |-> NoSession]
  /\ holder = [u \in LoginNames |-> 0]

\* user_ht_load of an empty permission_db; the file map is empty
AcStart ==
  /\ perm_tab = [u \in Users |-> [f \in ANames |-> NoPerm]]
  /\ perm_db = [u \in Users |-> [f \in ANames |-> NoPerm]]
  /\ own_map = [u \in Users |-> [f \in ANames |-> FALSE]]
  /\ lastCreate = NoCreate

\* a storage server on its first run: no metadata.db, no files
MdStart ==
  /\ mtab = [f \in MFiles |-> Absent]
  /\ mcount = 0
  /\ mdb = [count |-> 0, entries |-> <<>>]
  /\ pfile = [f \in MFiles |-> FALSE]
  /\ mlock = [f \in MFiles |-> "none"]
  /\ mth = [t \in MThreads |-> IdleThread]
  /\ acked = [f \in MFiles |-> Absent]

\* no storage server has connected
HbStart ==
  /\ hb_online = FALSE
  /\ hb_sock = -1
  /\ hb_stale = FALSE
  /\ hb_active = 0
  /\ hb_link = [c \in Conns |-> "none"]
  /\ hb_thread = [c \in Conns |-> "none"]
  /\ hb_open = [c \in Conns |-> FALSE]

\* no thread runs a handler, every lock is free
LkStart ==
  /\ lk_pc = [t \in LkThreads |-> [h |-> IdleLk, i |-> 0]]
  /\ lk_held = [l \in LkLocks |-> {}]
  /\ lk_writer = [l \in LkLocks |-> FALSE]

ExtStart ==
  /\ RdStart
  /\ RinStart
  /\ CkStart
  /\ RpStart
  /\ RingStart
  /\ ClStart
  /\ UsStart
  /\ AcStart
  /\ MdStart
  /\ HbStart
  /\ LkStart

SSInit ==
  /\ InitFresh \/ InitWritten
  /\ SSStart
  /\ NSStart
  /\ ExtStart

NSInit ==
  /\ InitFresh
  /\ SSStart
  /\ NSStart
  /\ ExtStart


\* pthread_rwlock_wrlock waits while a reader holds the lock
NoReaders == rd.pc = "idle"

-----------------------------------------------------------------------------
(* ss_handle_write_transaction *)

\* step 4: validation of the sentence index against the swap file's sentences
ValidSentenceIndex(sentences, n) ==
  /\ n >= 0
  /\ n <= Len(sentences)
  /\ (n = Len(sentences) /\ Len(sentences) > 0) =>
        LET last == sentences[Len(sentences)]
        IN  Len(last) > 0 /\ IsDelim(last[Len(last)])

\* step 5: the working sentence starts as the words of sentence n, or empty
InitialWords(sentences, n) ==
  IF n < Len(sentences) THEN ss_split_words(sentences[n + 1]) ELSE <<>>

\* step 6: one WRITE_DATA; an invalid index leaves the words alone
ValidWordIndex(words, msg) ==
  msg.word_index >= 0 /\ msg.word_index <= Len(words)

ApplyDataClamped(words, msg) ==
  IF ~ValidWordIndex(words, msg) THEN words \o ss_split_words(msg.content)
  ELSE SubSeq(words, 1, msg.word_index)
       \o ss_split_words(msg.content)
       \o SubSeq(words, msg.word_index + 1, Len(words))

ApplyData(words, msg) ==
  IF ~ValidWordIndex(words, msg) THEN words
  ELSE SubSeq(words, 1, msg.word_index)
       \o ss_split_words(msg.content)
       \o SubSeq(words, msg.word_index + 1, Len(words))

\* steps 7 and 10: replace sentence n or append it
CanSplice(sentences, n) == n <= Len(sentences)

SpliceAppend(sentences, n, new_sentence) == Append(sentences, new_sentence)

Splice(sentences, n, new_sentence) ==
  IF n < Len(sentences) THEN [sentences EXCEPT ![n + 1] = new_sentence]
  ELSE Append(sentences, new_sentence)

\* pthread_mutex_unlock(sentence_lock): through a pointer into a block that
\* realloc has since released it does not reach the mutex now in use
UnlockSentence(t) ==
  IF wtx[t].ptr_gen = lock_gen THEN locked \ {wtx[t].sentence_num} ELSE locked

\* the handler returns: its locals are gone, the client keeps the answer
Finish(t, reply) == [IdleTx EXCEPT !.reply = reply]

\* lock_map_get + lock_map_get_sentence_lock: the array grows by realloc when
\* the index is beyond it; realloc extends the block in place or moves it
WriteGetLock(t, n, max) ==
  /\ wtx[t].pc = "idle"
  /\ txnCount < max
  /\ txnCount' = txnCount + 1
  /\ IF n >= sentence_capacity
     THEN /\ sentence_capacity' = n + SentenceLockGrow
          /\ \E moved \in BOOLEAN :
                lock_gen' = IF moved /\ sentence_capacity > 0
                            THEN lock_gen + 1 ELSE lock_gen
     ELSE UNCHANGED <<sentence_capacity, lock_gen>>
  /\ wtx' = [wtx EXCEPT ![t] = [IdleTx EXCEPT !.pc = "trylock",
                                             !.sentence_num = n,
                                             !.ptr_gen = lock_gen']]
  /\ UNCHANGED <<files, undo, swap, checkpoints, tmpfile, meta, mapped, locked,
                 file_lock, repl_queue, op, opCount, histVars>>
  /\ UNCHANGED <<nsVars, extVars>>

\* step 1: pthread_mutex_trylock.  Through a dangling pointer the call
\* works on released memory: it may report success or EBUSY.
WriteTryLock(t) ==
  /\ wtx[t].pc = "trylock"
  /\ wtx[t].sentence_num >= 0
  /\ \E got \in BOOLEAN :
       /\ wtx[t].ptr_gen = lock_gen => (got <=> wtx[t].sentence_num \notin locked)
       /\ IF got
          THEN /\ locked' = IF wtx[t].ptr_gen = lock_gen
                            THEN locked \cup {wtx[t].sentence_num} ELSE locked
               /\ wtx' = [wtx EXCEPT ![t].pc = "copyswap", ![t].holds = TRUE]
          ELSE /\ locked' = locked
               /\ wtx' = [wtx EXCEPT ![t] = Finish(t, "WRITE_LOCKED")]
  /\ UNCHANGED <<files, undo, swap, checkpoints, tmpfile, meta, mapped,
                 sentence_capacity, lock_gen, file_lock, repl_queue, op,
                 txnCount, opCount, histVars>>
  /\ UNCHANGED <<nsVars, extVars>>

\* step 1 for a negative index: lock_map_get_sentence_lock does not grow the
\* array and returns &sentence_locks[sentence_num], an address before the
\* array (before address 0 while the array is NULL).  pthread_mutex_trylock
\* on it is undefined: the process is killed by the access and nobody is
\* answered, or the call returns with whatever the memory there makes of it.
WriteTryLockOutside(t) ==
  /\ wtx[t].pc = "trylock"
  /\ wtx[t].sentence_num < 0
  /\ \E outcome \in {"killed", "got", "busy"} :
       CASE outcome = "killed" ->
              /\ wtx' = [u \in Writers |->
                           IF u = t \/ wtx[u].pc # "idle"
                           THEN Finish(u, "NO_ANSWER") ELSE wtx[u]]
              /\ locked' = {}
              /\ sentence_capacity' = 0
         [] outcome = "got" ->
              /\ wtx' = [wtx EXCEPT ![t].pc = "copyswap", ![t].holds = TRUE]
              /\ UNCHANGED <<locked, sentence_capacity>>
         [] outcome = "busy" ->
              /\ wtx' = [wtx EXCEPT ![t] = Finish(t, "WRITE_LOCKED")]
              /\ UNCHANGED <<locked, sentence_capacity>>
  /\ UNCHANGED <<files, undo, swap, checkpoints, tmpfile, meta, mapped,
                 lock_gen, file_lock, repl_queue, op,
                 txnCount, opCount, histVars>>
  /\ UNCHANGED <<nsVars, extVars>>

\* step 2: _copy_file(files/F, swap/F_swap_n)
WriteCopySwap(t) ==
  /\ wtx[t].pc = "copyswap"
  /\ IF files = NoFile
     THEN /\ locked' = UnlockSentence(t)
          /\ wtx' = [wtx EXCEPT ![t] = Finish(t, "FAIL")]
          /\ swap' = swap
     ELSE /\ swap' = [swap EXCEPT ![wtx[t].sentence_num] = files]
          /\ wtx' = [wtx EXCEPT ![t].pc = "copyundo"]
          /\ locked' = locked
  /\ UNCHANGED <<files, undo, checkpoints, tmpfile, meta, mapped,
                 sentence_capacity, lock_gen, file_lock, repl_queue, op,
                 txnCount, opCount, histVars>>
  /\ UNCHANGED <<nsVars, extVars>>

\* steps 3 to 5: _copy_file(swap, undo/F), read the swap file, validate the
\* sentence index, answer WRITE_OK
WriteCopyUndo(t) ==
  LET n == wtx[t].sentence_num
      sentences == ss_split_sentences(swap[n])
  IN
  /\ wtx[t].pc = "copyundo"
  /\ IF swap[n] = NoFile
     THEN /\ locked' = UnlockSentence(t)
          /\ wtx' = [wtx EXCEPT ![t] = Finish(t, "FAIL")]
          /\ UNCHANGED <<undo, swap>>
     ELSE /\ undo' = swap[n]
          /\ IF ValidSentenceIndex(sentences, n)
             THEN /\ wtx' = [wtx EXCEPT ![t].pc = "open",
                                        ![t].sentences = sentences,
                                        ![t].words = InitialWords(sentences, n),
                                        ![t].reply = "WRITE_OK"]
                  /\ UNCHANGED <<swap, locked>>
             ELSE /\ swap' = [swap EXCEPT ![n] = NoFile]
                  /\ locked' = UnlockSentence(t)
                  /\ wtx' = [wtx EXCEPT ![t] = Finish(t, "FAIL")]
  /\ UNCHANGED <<files, checkpoints, tmpfile, meta, mapped,
                 sentence_capacity, lock_gen, file_lock, repl_queue, op,
                 txnCount, opCount, histVars>>
  /\ UNCHANGED <<nsVars, extVars>>

\* step 6, MSG_C2S_WRITE_DATA
WriteRecvDataUpTo(t, msg, max) ==
  /\ wtx[t].pc = "open"
  /\ Len(wtx[t].ops) < max
  /\ wtx' = [wtx EXCEPT ![t].words = ApplyData(wtx[t].words, msg),
                        ![t].ops = Append(wtx[t].ops, msg),
                        ![t].reply = IF ValidWordIndex(wtx[t].words, msg)
                                     THEN wtx[t].reply ELSE "DATA_ERROR"]
  /\ UNCHANGED <<files, undo, swap, checkpoints, tmpfile, meta, mapped,
                 sentence_capacity, lock_gen, locked, file_lock, repl_queue, op,
                 txnCount, opCount, histVars>>
  /\ UNCHANGED <<nsVars, extVars>>

WriteRecvData(t, msg) == WriteRecvDataUpTo(t, msg, MaxData)

\* steps 7 and 8, reached when the receive loop ends with connection_lost = 0:
\* join the words, put the sentence into the snapshot, write the swap file
EndInput(t, closed) ==
  LET n == wtx[t].sentence_num
      new_sentence == ss_join_words(wtx[t].words)
      new_file_content == ss_join_sentences(Splice(wtx[t].sentences, n, new_sentence))
  IN
  /\ swap' = [swap EXCEPT ![n] = new_file_content]
  /\ wtx' = [wtx EXCEPT ![t].pc = "wrlock", ![t].closed = closed]
  /\ UNCHANGED <<files, undo, checkpoints, tmpfile, meta, mapped,
                 sentence_capacity, lock_gen, locked, file_lock, repl_queue, op,
                 txnCount, opCount, histVars>>
  /\ UNCHANGED <<nsVars, extVars>>

\* MSG_C2S_WRITE_ETIRW: "break; // End of transaction"
WriteRecvETIRW(t) ==
  /\ wtx[t].pc = "open"
  /\ EndInput(t, FALSE)

\* the client closes the connection between two messages: recv_header
\* returns 0, the loop "while (recv_header(...) > 0)" ends, connection_lost
\* is still 0
WriteRecvClose(t) ==
  /\ wtx[t].pc = "open"
  /\ EndInput(t, TRUE)

\* the connection is lost inside a WRITE_DATA (recv_payload <= 0) or the
\* payload is too large: connection_lost = 1, the transaction is aborted
WriteRecvBroken(t) ==
  /\ wtx[t].pc = "open"
  /\ swap' = [swap EXCEPT ![wtx[t].sentence_num] = NoFile]
  /\ locked' = UnlockSentence(t)
  /\ wtx' = [wtx EXCEPT ![t] = Finish(t, None)]
  /\ UNCHANGED <<files, undo, checkpoints, tmpfile, meta, mapped,
                 sentence_capacity, lock_gen, file_lock, repl_queue, op,
                 txnCount, opCount, histVars>>
  /\ UNCHANGED <<nsVars, extVars>>


\* step 9 and the re-read of step 10: pthread_rwlock_wrlock, then
\* ss_read_file_to_memory(files/F).  When the file is missing the function
\* returns NULL and leaves current_file_size unset, so the test
\* "!current_file_content && current_file_size > 0" reads an indeterminate
\* value: either the commit fails or it goes on with empty content.
WriteCommitLock(t) ==
  /\ wtx[t].pc = "wrlock"
  /\ file_lock = None
  /\ NoReaders
  /\ \E garbage_positive \in BOOLEAN :
       /\ files # NoFile => ~garbage_positive
       /\ IF files = NoFile /\ garbage_positive
          THEN /\ swap' = [swap EXCEPT ![wtx[t].sentence_num] = NoFile]
               /\ locked' = UnlockSentence(t)
               /\ wtx' = [wtx EXCEPT ![t] = Finish(t, "FAIL")]
               /\ file_lock' = None
          ELSE /\ file_lock' = t
               /\ wtx' = [wtx EXCEPT ![t].pc = "merge",
                                     ![t].atLock = files,
                                     ![t].current = IF files = NoFile THEN <<>> ELSE files]
               /\ UNCHANGED <<swap, locked>>
  /\ UNCHANGED <<files, undo, checkpoints, tmpfile, meta, mapped,
                 sentence_capacity, lock_gen, repl_queue, op,
                 txnCount, opCount, histVars>>
  /\ UNCHANGED <<nsVars, extVars>>

\* step 10: the working sentence put into the sentences just read
CommitContent(t) ==
  ss_join_sentences(Splice(ss_split_sentences(wtx[t].current),
                           wtx[t].sentence_num, ss_join_words(wtx[t].words)))

\* steps 10 to 15: merge the working sentence into the sentences just read,
\* write files/F, unlink the swap file, update the metadata, release both
\* locks, schedule the replication, answer
WriteCommit(t) ==
  LET n == wtx[t].sentence_num
      new_sentence == ss_join_words(wtx[t].words)
      current_sentences == ss_split_sentences(wtx[t].current)
      merged_content == CommitContent(t)
  IN
  /\ wtx[t].pc = "merge"
  /\ swap' = [swap EXCEPT ![n] = NoFile]
  /\ file_lock' = None
  /\ locked' = UnlockSentence(t)
  /\ IF CanSplice(current_sentences, n)
     THEN /\ files' = merged_content
          /\ meta' = IF meta = NoMeta THEN NoMeta
                     ELSE [meta EXCEPT !.size = Len(merged_content),
                                       !.words = CountWords(Splice(current_sentences, n,
                                                                   new_sentence)),
                                       !.chars = Len(merged_content)]
          /\ repl_queue' = Append(repl_queue, "update")
          /\ wtx' = [wtx EXCEPT ![t] = Finish(t, "SUCCESS")]
          /\ closedCommit' = (closedCommit \/ wtx[t].closed)
          /\ log' = Append(log, [sentence_num |-> n, ops |-> wtx[t].ops,
                                 new_sentence |-> new_sentence,
                                 stale |-> (wtx[t].sentences # current_sentences)])
          /\ lastCommit' = [pre |-> wtx[t].atLock, sentence_num |-> n,
                            new_sentence |-> new_sentence, post |-> merged_content]
          /\ lastMut' = [kind |-> "WRITE", pre |-> files, undoAfter |-> undo]
          /\ undoPrev' = NoFile
     ELSE /\ wtx' = [wtx EXCEPT ![t] = Finish(t, "FAIL")]
          /\ UNCHANGED <<files, meta, repl_queue, log, lastCommit, lastMut, undoPrev,
                         closedCommit>>
  /\ UNCHANGED <<undo, checkpoints, tmpfile, mapped, sentence_capacity, lock_gen,
                 op, txnCount, opCount, initText, otherMut, undoPair, delRace>>
  /\ UNCHANGED <<nsVars, extVars>>

WriteStep(t, nums, msgs, max) ==
  \/ \E n \in nums : WriteGetLock(t, n, max)
  \/ WriteTryLock(t)
  \/ WriteCopySwap(t)
  \/ WriteCopyUndo(t)
  \/ \E msg \in msgs : WriteRecvData(t, msg)
  \/ WriteRecvETIRW(t)
  \/ WriteRecvClose(t)
  \/ WriteRecvBroken(t)
  \/ WriteCommitLock(t)
  \/ WriteCommit(t)

-----------------------------------------------------------------------------
(* The handlers that serve the other client: UNDO, CHECKPOINT, REVERT, and,  *)
(* through the name server, DELETE and CREATE                                *)

OpDone(reply) == op' = [op EXCEPT !.pc = "idle", !.reply = reply]

\* ss_handle_undo: wrlock, stat(undo/F), rename(files/F, files/F.tmp)
UndoBegin ==
  /\ file_lock = None
  /\ NoReaders
  /\ opCount < MaxOps /\ op.pc = "idle" /\ opCount' = opCount + 1
  /\ IF undo = NoFile \/ files = NoFile
     THEN /\ op' = [pc |-> "idle", tag |-> None,
                    reply |-> IF undo = NoFile THEN "NO_UNDO" ELSE "FAIL"]
          /\ UNCHANGED <<files, tmpfile, file_lock>>
     ELSE /\ op' = [pc |-> "undo2", tag |-> None, reply |-> None]
          /\ file_lock' = OpClient
          /\ tmpfile' = files
          /\ files' = NoFile
  /\ UNCHANGED <<undo, swap, checkpoints, meta, mapped, sentence_capacity, lock_gen,
                 locked, repl_queue, wtx, txnCount, histVars>>
  /\ UNCHANGED <<nsVars, extVars>>

\* rename(undo/F, files/F), with the rollback when it fails
UndoRename ==
  /\ op.pc = "undo2"
  /\ IF undo = NoFile
     THEN /\ files' = tmpfile
          /\ tmpfile' = NoFile
          /\ file_lock' = None
          /\ OpDone("FAIL")
          /\ undo' = undo
     ELSE /\ files' = undo
          /\ undo' = NoFile
          /\ op' = [op EXCEPT !.pc = "undo3"]
          /\ UNCHANGED <<tmpfile, file_lock>>
  /\ UNCHANGED <<swap, checkpoints, meta, mapped, sentence_capacity, lock_gen,
                 locked, repl_queue, wtx, txnCount, opCount, histVars>>
  /\ UNCHANGED <<nsVars, extVars>>

\* rename(files/F.tmp, undo/F), metadata, unlock, replication, answer
UndoFinish ==
  /\ op.pc = "undo3"
  /\ undo' = tmpfile
  /\ tmpfile' = NoFile
  /\ meta' = MetaOf(files, meta)
  /\ file_lock' = None
  /\ repl_queue' = Append(repl_queue, "update")
  /\ OpDone("SUCCESS")
  /\ lastMut' = [kind |-> "UNDO", pre |-> tmpfile, undoAfter |-> tmpfile]
  /\ otherMut' = TRUE
  /\ undoPrev' = tmpfile
  /\ undoPair' = IF undoPrev = NoFile THEN undoPair
                 ELSE [pre |-> undoPrev, post |-> files]
  /\ UNCHANGED <<files, swap, checkpoints, mapped, sentence_capacity, lock_gen,
                 locked, wtx, txnCount, opCount, initText, log, lastCommit, delRace, closedCommit>>
  /\ UNCHANGED <<nsVars, extVars>>


\* ss_handle_checkpoint, CHECKPOINT: access(checkpoints/F_tag, F_OK), taken
\* before the lock
CheckpointCheck(tag) ==
  /\ op.pc = "idle"
  /\ opCount < MaxOps
  /\ opCount' = opCount + 1
  /\ op' = IF checkpoints[tag] # NoFile
           THEN [pc |-> "idle", tag |-> None, reply |-> "TAG_EXISTS"]
           ELSE [pc |-> "ckpt2", tag |-> tag, reply |-> None]
  /\ UNCHANGED <<files, undo, swap, checkpoints, tmpfile, meta, mapped,
                 sentence_capacity, lock_gen, locked, file_lock, repl_queue,
                 wtx, txnCount, histVars>>
  /\ UNCHANGED <<nsVars, extVars>>

\* CHECKPOINT: rdlock, _copy_file(files/F, checkpoints/F_tag), unlock
CheckpointCopy ==
  /\ op.pc = "ckpt2"
  /\ file_lock = None
  /\ IF files = NoFile
     THEN /\ OpDone("FAIL")
          /\ UNCHANGED checkpoints
     ELSE /\ checkpoints' = [checkpoints EXCEPT ![op.tag] = files]
          /\ OpDone("SUCCESS")
  /\ UNCHANGED <<files, undo, swap, tmpfile, meta, mapped, sentence_capacity,
                 lock_gen, locked, file_lock, repl_queue, wtx, txnCount, opCount,
                 histVars>>
  /\ UNCHANGED <<nsVars, extVars>>

\* ss_handle_checkpoint, REVERT: wrlock, _copy_file(files/F, undo/F) with the
\* error ignored
RevertBegin(tag) ==
  /\ op.pc = "idle"
  /\ opCount < MaxOps
  /\ file_lock = None
  /\ NoReaders
  /\ opCount' = opCount + 1
  /\ file_lock' = OpClient
  /\ undo' = IF files = NoFile THEN undo ELSE files
  /\ op' = [pc |-> "rev2", tag |-> tag, reply |-> None]
  /\ UNCHANGED <<files, swap, checkpoints, tmpfile, meta, mapped, sentence_capacity,
                 lock_gen, locked, repl_queue, wtx, txnCount, histVars>>
  /\ UNCHANGED <<nsVars, extVars>>

\* checkpath: the source of REVERT's copy
RevertSourceUndo(tag) == undo

RevertSource(tag) == checkpoints[tag]

\* REVERT: _copy_file(checkpoints/F_tag, files/F), metadata, unlock,
\* replication, answer
RevertFinish ==
  /\ op.pc = "rev2"
  /\ file_lock' = None
  /\ IF RevertSource(op.tag) = NoFile
     THEN /\ OpDone("FAIL")
          /\ UNCHANGED <<files, meta, repl_queue, otherMut, lastMut, undoPrev>>
     ELSE /\ files' = RevertSource(op.tag)
          /\ meta' = MetaOf(RevertSource(op.tag), meta)
          /\ repl_queue' = Append(repl_queue, "update")
          /\ OpDone("SUCCESS")
          /\ otherMut' = TRUE
          /\ lastMut' = [kind |-> "REVERT", pre |-> files, undoAfter |-> undo]
          /\ undoPrev' = NoFile
  /\ UNCHANGED <<undo, swap, checkpoints, tmpfile, mapped, sentence_capacity,
                 lock_gen, locked, wtx, txnCount, opCount, initText, log,
                 lastCommit, undoPair, delRace, closedCommit>>
  /\ UNCHANGED <<nsVars, extVars>>

\* handle_delete forwards to ss_handle_delete_file once the requester is the
\* owner and the file is mapped: wrlock, then the scan of swap/ for F_swap_*
DeleteBegin ==
  /\ op.pc = "idle"
  /\ opCount < MaxOps
  /\ mapped
  /\ file_lock = None
  /\ NoReaders
  /\ opCount' = opCount + 1
  /\ IF \E n \in SentenceNums : swap[n] # NoFile
     THEN /\ op' = [pc |-> "idle", tag |-> None, reply |-> "WRITE_IN_PROGRESS"]
          /\ UNCHANGED file_lock
     ELSE /\ op' = [pc |-> "del2", tag |-> None, reply |-> None]
          /\ file_lock' = OpClient
  /\ UNCHANGED <<files, undo, swap, checkpoints, tmpfile, meta, mapped,
                 sentence_capacity, lock_gen, locked, repl_queue, wtx, txnCount,
                 histVars>>
  /\ UNCHANGED <<nsVars, extVars>>

\* unlink(files/F), unlink(undo/F), unlink of every checkpoint, unlock,
\* metadata_table_remove, repl_schedule_delete; on the acknowledgement the
\* name server drops the file's record
DeleteFinish ==
  /\ op.pc = "del2"
  /\ file_lock' = None
  /\ IF files = NoFile
     THEN /\ OpDone("FAIL")
          /\ UNCHANGED <<files, undo, checkpoints, meta, mapped, repl_queue,
                         otherMut, undoPrev, delRace>>
     ELSE /\ files' = NoFile
          /\ undo' = NoFile
          /\ checkpoints' = [g \in Tags |-> NoFile]
          /\ meta' = NoMeta
          /\ mapped' = FALSE
          /\ repl_queue' = Append(repl_queue, "delete")
          /\ OpDone("SUCCESS")
          /\ otherMut' = TRUE
          /\ undoPrev' = NoFile
          /\ delRace' = (delRace \/ \E n \in SentenceNums : swap[n] # NoFile)
  /\ UNCHANGED <<swap, tmpfile, sentence_capacity, lock_gen, locked, wtx,
                 txnCount, opCount, initText, log, lastCommit, lastMut, undoPair,
                 closedCommit>>
  /\ UNCHANGED <<nsVars, extVars>>

\* handle_create finds no record of F, and ss_handle_create_file runs:
\* fopen(files/F, "w") without any lock, metadata_table_insert,
\* repl_schedule_update
Create ==
  /\ op.pc = "idle"
  /\ opCount < MaxOps
  /\ ~mapped
  /\ opCount' = opCount + 1
  /\ files' = <<>>
  /\ meta' = NewMeta
  /\ mapped' = TRUE
  /\ repl_queue' = Append(repl_queue, "update")
  /\ op' = [pc |-> "idle", tag |-> None, reply |-> "SUCCESS"]
  /\ otherMut' = TRUE
  /\ undoPrev' = NoFile
  /\ UNCHANGED <<undo, swap, checkpoints, tmpfile, sentence_capacity, lock_gen,
                 locked, file_lock, wtx, txnCount, initText, log, lastCommit,
                 lastMut, undoPair, delRace, closedCommit>>
  /\ UNCHANGED <<nsVars, extVars>>

\* replication_worker_thread: repl_queue_pop, then _do_replication_update or
\* _do_replication_delete, which return at once while no backup is assigned
ReplWorker ==
  /\ repl_queue # <<>>
  /\ repl_queue' = Tail(repl_queue)
  /\ UNCHANGED <<files, undo, swap, checkpoints, tmpfile, meta, mapped,
                 sentence_capacity, lock_gen, locked, file_lock, wtx, op,
                 txnCount, opCount, histVars>>
  /\ UNCHANGED <<nsVars, extVars>>

OpStep ==
  \/ UndoBegin
  \/ UndoRename
  \/ UndoFinish
  \/ \E tag \in Tags : CheckpointCheck(tag)
  \/ CheckpointCopy
  \/ \E tag \in Tags : RevertBegin(tag)
  \/ RevertFinish
  \/ DeleteBegin
  \/ DeleteFinish
  \/ Create

-----------------------------------------------------------------------------
(* ss_handle_read *)

\* ss_get_path(SS_FILES_DIR, req->filename, filepath): the file that is read
ReadFromSwap == swap[0]

ReadFrom == files

\* the content the last completed mutation left in files/F (WRITE commits
\* being the only mutations)
Committed == IF lastCommit = NoCommit THEN initText ELSE lastCommit.post

\* metadata_table_exists, pthread_rwlock_rdlock, fopen(files/F, "r")
ReadBegin ==
  /\ rd.pc = "idle"
  /\ readCount < MaxReads
  /\ file_lock = None
  /\ readCount' = readCount + 1
  /\ rd' = IF meta = NoMeta \/ ReadFrom = NoFile
           THEN [IdleRd EXCEPT !.reply = "NOT_FOUND"]
           ELSE [IdleRd EXCEPT !.pc = "reading", !.snap = ReadFrom, !.linked = TRUE]
  /\ UNCHANGED <<lastRead, rdOthers, ssVars, histVars, nsVars>>

\* one turn of the loop: fread of at most MAX_PAYLOAD bytes at the current
\* position of the open file, sent as one chunk; a short chunk is the final
\* one, an empty fread ends the loop, and when the loop has sent nothing
\* ("if (!sent_data)") an empty chunk with the final flag follows it
ReadChunk ==
  LET left == IF Len(rd.snap) > rd.pos THEN Len(rd.snap) - rd.pos ELSE 0
      nread == IF left > MaxChunk THEN MaxChunk ELSE left
  IN
  /\ rd.pc = "reading"
  /\ rd' = [rd EXCEPT !.got = rd.got \o SubSeq(rd.snap, rd.pos + 1, rd.pos + nread),
                      !.pos = rd.pos + nread,
                      !.first = IF rd.pos = 0 THEN rd.snap ELSE rd.first,
                      !.flags = IF nread > 0 THEN Append(rd.flags, nread < MaxChunk)
                                ELSE IF rd.flags = <<>> THEN <<TRUE>>
                                ELSE rd.flags,
                      !.pc = IF nread < MaxChunk THEN "close" ELSE "reading"]
  /\ UNCHANGED <<readCount, lastRead, rdOthers, ssVars, histVars, nsVars>>

\* fclose, pthread_rwlock_unlock; the client has the whole transfer
ReadEnd ==
  /\ rd.pc = "close"
  /\ rd' = [IdleRd EXCEPT !.reply = "READ_CONTENT"]
  /\ lastRead' = [content |-> rd.got, committed |-> Committed, version |-> rd.first,
                  openTx |-> {t \in Writers : wtx[t].pc \in {"open", "wrlock"}}]
  /\ UNCHANGED <<readCount, rdOthers, ssVars, histVars, nsVars>>

ReadStep ==
  \/ ReadBegin
  \/ ReadChunk
  \/ ReadEnd

-----------------------------------------------------------------------------
(* ss_handle_checkpoint, CHECKPOINT, served on a second connection *)

\* access(checkpoints/F_tag, F_OK), taken before the lock
Checkpoint2Check(tag) ==
  /\ ck2.pc = "idle"
  /\ ck2Count < MaxCkpt
  /\ ck2Count' = ck2Count + 1
  /\ ck2' = IF checkpoints[tag] # NoFile
            THEN [pc |-> "idle", tag |-> None, reply |-> "TAG_EXISTS"]
            ELSE [pc |-> "ckpt2", tag |-> tag, reply |-> None]
  /\ UNCHANGED <<ssVars, histVars, nsVars, ckOthers>>

\* rdlock, _copy_file(files/F, checkpoints/F_tag), unlock
Checkpoint2Copy ==
  /\ ck2.pc = "ckpt2"
  /\ file_lock = None
  /\ IF files = NoFile
     THEN /\ ck2' = [pc |-> "idle", tag |-> None, reply |-> "FAIL"]
          /\ UNCHANGED checkpoints
     ELSE /\ checkpoints' = [checkpoints EXCEPT ![ck2.tag] = files]
          /\ ck2' = [pc |-> "idle", tag |-> None, reply |-> "SUCCESS"]
  /\ UNCHANGED <<files, undo, swap, tmpfile, meta, mapped, sentence_capacity,
                 lock_gen, locked, file_lock, repl_queue, wtx, op, txnCount, opCount,
                 histVars>>
  /\ UNCHANGED <<ck2Count, nsVars, ckOthers>>

Checkpoint2Step ==
  \/ \E tag \in Tags : Checkpoint2Check(tag)
  \/ Checkpoint2Copy

-----------------------------------------------------------------------------
(* handle_replication_receive: the replication listener of the server that
   holds the copy *)

RinTexts == {TextOne}

\* what handle_replication_receive leaves alone
RinLeaves ==
  <<undo, swap, checkpoints, tmpfile, mapped, sentence_capacity, lock_gen,
    locked, file_lock, repl_queue, wtx, op, txnCount, opCount, histVars, nsVars,
    readCount, lastRead, rinOthers>>

\* the sender is the server whose backup target this server is, and sends
\* its own files: F is not a file this server holds as its own
RinExpected == meta = NoMeta \/ meta.is_backup

\* what a write to the file that files/F names does to the file a reader
\* has open
ReaderSees(content) ==
  IF rd.pc # "idle" /\ rd.linked THEN [rd EXCEPT !.snap = content] ELSE rd

\* MSG_S2S_REPLICATE_FILE: fopen(filepath, "wb") truncates files/F in place
\* (or creates it); no lock of the file is taken
RinReplicateOpen(data) ==
  /\ rin.pc = "idle"
  /\ rinCount < MaxReplIn
  /\ RinExpected
  /\ rinCount' = rinCount + 1
  /\ rin' = [pc |-> "write", data |-> data]
  /\ files' = <<>>
  /\ rd' = IF files = NoFile THEN rd ELSE ReaderSees(<<>>)
  /\ UNCHANGED <<meta, RinLeaves>>

\* the recv/fwrite loop and fclose
RinReplicateWrite ==
  /\ rin.pc = "write"
  /\ rin' = [rin EXCEPT !.pc = "meta"]
  /\ files' = rin.data
  /\ rd' = ReaderSees(rin.data)
  /\ UNCHANGED <<meta, rinCount, RinLeaves>>

\* metadata_table_insert(..., is_backup = true), MSG_S2S_ACK, close
RinReplicateMeta ==
  /\ rin.pc = "meta"
  /\ rin' = IdleRin
  /\ meta' = [owner |-> "alice", size |-> Len(rin.data), words |-> 0, chars |-> 0,
              is_backup |-> TRUE]
  /\ UNCHANGED <<files, rinCount, rd, RinLeaves>>

\* MSG_S2S_DELETE_FILE: unlink, metadata_table_remove, MSG_S2S_ACK, close; a
\* reader keeps the unlinked file open
RinDelete ==
  /\ rin.pc = "idle"
  /\ rinCount < MaxReplIn
  /\ RinExpected
  /\ rinCount' = rinCount + 1
  /\ files' = NoFile
  /\ meta' = NoMeta
  /\ rd' = [rd EXCEPT !.linked = FALSE]
  /\ UNCHANGED <<rin, RinLeaves>>

RinStep ==
  \/ \E data \in RinTexts : RinReplicateOpen(data)
  \/ RinReplicateWrite
  \/ RinReplicateMeta
  \/ RinDelete

-----------------------------------------------------------------------------
(* repl_worker_thread, _do_replication_update, _do_replication_delete, and
   the backup target's handle_replication_receive *)

\* what the replication worker leaves alone
WorkerLeaves ==
  <<files, undo, swap, checkpoints, tmpfile, meta, mapped, sentence_capacity,
    lock_gen, locked, file_lock, wtx, op, txnCount, opCount, histVars, nsVars,
    rpOthers>>

Range(q) == {q[i] : i \in 1..Len(q)}

\* the bytes sendfile transfers: at most n, from the start of the file
Prefix(text, n) == IF Len(text) > n THEN SubSeq(text, 1, n) ELSE text

\* repl_queue_pop, then the start of the job.  UPDATE: the is_backup check on
\* the metadata, open(files/F), fstat.  The re-queued UPDATE is the same node
\* as a fresh one; the queue marks it "retry" for the history only.
ReplDequeue ==
  LET job == Head(repl_queue) IN
  /\ rw.pc = "idle"
  /\ repl_queue # <<>>
  /\ repl_queue' = Tail(repl_queue)
  /\ IF job = "delete"
     THEN /\ rw' = [pc |-> "delete", job |-> job, opened |-> NoFile]
          /\ delPassed' = (delPassed \/ "retry" \in Range(Tail(repl_queue)))
     ELSE /\ rw' = IF (meta # NoMeta /\ meta.is_backup) \/ files = NoFile
                   THEN [IdleRw EXCEPT !.job = job]
                   ELSE [pc |-> "connect", job |-> job, opened |-> files]
          /\ UNCHANGED delPassed
  /\ UNCHANGED <<retry_count, backup_up, outages, bfile, lastSend, WorkerLeaves>>

\* sendfile(sock, fd, &offset, st_size): the first st_size bytes of the open
\* file, which since open() has been left alone, rewritten in place, or
\* replaced under its name
SendChoices ==
  {Prefix(rw.opened, Len(rw.opened))}
    \cup (IF files = NoFile THEN {} ELSE {Prefix(files, Len(rw.opened))})

RetryAllowedAlways(count) == TRUE

\* "if (retry_counts[idx] < 5)"
RetryAllowed(count) == count < RetryLimit

\* _do_replication_update from connect_to_server on: a failed connect
\* re-queues the job at the tail while the retry count allows; otherwise
\* REPLICATE_FILE with the owner from the metadata, the bytes, the wait for
\* the ACK.  The backup target writes what it receives to its files/F.
ReplUpdate ==
  /\ rw.pc = "connect"
  /\ rw' = [IdleRw EXCEPT !.job = rw.job]
  /\ IF ~backup_up
     THEN /\ IF RetryAllowed(retry_count)
             THEN /\ retry_count' = retry_count + 1
                  /\ repl_queue' = Append(repl_queue, "retry")
             ELSE UNCHANGED <<retry_count, repl_queue>>
          /\ UNCHANGED <<bfile, lastSend>>
     ELSE /\ UNCHANGED <<retry_count, repl_queue>>
          /\ IF meta = NoMeta
             THEN UNCHANGED <<bfile, lastSend>>
             ELSE \E data \in SendChoices :
                    /\ bfile' = data
                    /\ lastSend' = [is_backup |-> meta.is_backup, data |-> data]
  /\ UNCHANGED <<backup_up, outages, delPassed, WorkerLeaves>>

\* _do_replication_delete: a failed connect drops the job; otherwise
\* DELETE_FILE, and the backup target unlinks its files/F
ReplDelete ==
  /\ rw.pc = "delete"
  /\ rw' = [IdleRw EXCEPT !.job = rw.job]
  /\ bfile' = IF backup_up THEN NoFile ELSE bfile
  /\ UNCHANGED <<repl_queue, retry_count, backup_up, outages, delPassed, lastSend,
                 WorkerLeaves>>

\* the backup target stops, and later starts, accepting connections
BackupDown ==
  /\ backup_up
  /\ outages < MaxOutage
  /\ backup_up' = FALSE
  /\ outages' = outages + 1
  /\ UNCHANGED <<repl_queue, rw, retry_count, bfile, delPassed, lastSend, WorkerLeaves>>

BackupUp ==
  /\ ~backup_up
  /\ backup_up' = TRUE
  /\ UNCHANGED <<repl_queue, rw, retry_count, outages, bfile, delPassed, lastSend,
                 WorkerLeaves>>

ReplStep ==
  \/ ReplDequeue
  \/ ReplUpdate
  \/ ReplDelete

-----------------------------------------------------------------------------
(* ns_ss_manager.c: the ring of storage servers, registration and recovery;
   ss_recovery.c: the transfer between the two servers *)

RingLeaves == <<ssVars, histVars, nsVars, ringOthers>>

IndexIn(r, m) == CHOOSE i \in 1..Len(r) : r[i] = m

\* ss->next
NextIn(r, m) == r[(IndexIn(r, m) % Len(r)) + 1]

\* get_prev_ss: the node whose next is ss
PrevIn(r, m) ==
  IF Len(r) = 1 THEN m
  ELSE r[IF IndexIn(r, m) = 1 THEN Len(r) ELSE IndexIn(r, m) - 1]

\* get_ss_backing_up: "return ss->next"
get_ss_backing_up(r, m) == IF Len(r) < 2 THEN NoSS ELSE NextIn(r, m)

recompute_backup_assignments_next(r, m) == IF Len(r) = 1 THEN NoSS ELSE NextIn(r, m)

\* recompute_backup_assignments_locked: "curr->backup_ss_id = prev->ss_id"
recompute_backup_assignments(r, m) == IF Len(r) = 1 THEN NoSS ELSE PrevIn(r, m)

\* "sync_from_backup.target_port = ss_node->backup_port": the replication
\* port the reconnecting server registered
SyncTargetPort == "repl"

\* what a storage server runs for a connection that opens with
\* START_RECOVERY: handle_connection on the client port dispatches it to
\* ss_handle_recovery_connection; the replication listener runs
\* handle_replication_receive, which knows REPLICATE_FILE and DELETE_FILE only
RecoveryHandler(port) ==
  IF port = "client" THEN "ss_handle_recovery_connection"
  ELSE "handle_replication_receive"

\* repl_schedule_update / repl_schedule_delete: the job is appended; a job
\* that is already the last one waiting for its file is not kept twice
Schedule(q, job) ==
  IF \E i \in 1..Len(q) : q[i] = job /\ \A j \in (i+1)..Len(q) : q[j].f # job.f
  THEN q ELSE Append(q, job)

RECURSIVE ScheduleAll(_, _)
ScheduleAll(q, fs) ==
  IF fs = {} THEN q
  ELSE LET f == CHOOSE x \in fs : TRUE
       IN  ScheduleAll(Schedule(q, [type |-> "update", f |-> f]), fs \ {f})

\* ss_handle_update_backup: with a target assigned, every file of files/
\* whose metadata has is_backup = false is scheduled for replication
CatchUp(q, x, target) ==
  IF target = NoSS THEN q
  ELSE ScheduleAll(q, {f \in CFiles : sfile[x][f] = "primary"})

\* ss_handler_thread, steps 1 to 4: registration of a new or a known
\* machine, the ring, the backup assignments, and for a known machine the
\* SYNC_FROM_BACKUP to get_ss_backing_up(ss_node) and SYNC_TO_PRIMARY to it
RingRegister(m) ==
  LET is_recovery == ss_node[m].known
      r2 == IF is_recovery THEN ring ELSE <<m>> \o ring
      nodes2 == [x \in Machines |->
                   IF x \in Range(r2)
                   THEN [known |-> TRUE,
                         is_online |-> (x = m \/ ss_node[x].is_online),
                         backup_ss_id |-> recompute_backup_assignments(r2, x)]
                   ELSE ss_node[x]]
      src == get_ss_backing_up(r2, m)
      starts == is_recovery /\ src # NoSS /\ nodes2[src].is_online
      \* notify_backup_assignments_locked(is_new_ss ? ss_node : NULL)
      notified(x) == /\ x \in Range(r2) /\ nodes2[x].is_online
                     /\ (x = m => is_recovery)
                     /\ (x # m => ~is_syncing[x])
  IN
  /\ ~ss_node[m].is_online
  /\ rec.pc # "sync"
  /\ sync_wait = NoWait
  /\ ring_file_count' = [ring_file_count EXCEPT ![m] = RegFileCount]
  /\ is_syncing' = [x \in Machines |->
                      IF starts /\ x \in {m, src} THEN TRUE
                      ELSE IF x = m THEN FALSE ELSE is_syncing[x]]
  /\ sync_wait' = IF starts THEN [R |-> m, source |-> src] ELSE NoWait
  /\ repl_jobs' = [x \in Machines |->
                     LET q == IF x = m THEN <<>> ELSE repl_jobs[x]
                     IN  IF notified(x) THEN CatchUp(q, x, nodes2[x].backup_ss_id)
                         ELSE q]
  /\ UNCHANGED <<ring_file_map, sfile, file_cache, lastFind, cops>>
  /\ is_recovery => reconnects < MaxReconnects
  /\ ring' = r2
  /\ ss_node' = nodes2
  /\ reconnects' = IF is_recovery THEN reconnects + 1 ELSE reconnects
  /\ IF starts
     THEN /\ rec' = [pc |-> "sync", R |-> m, source |-> src, port |-> SyncTargetPort,
                     complete |-> FALSE]
          /\ lastRecovery' = [R |-> m, source |-> src,
                              backup_ss_id |-> nodes2[m].backup_ss_id]
     ELSE UNCHANGED <<rec, lastRecovery>>
  /\ UNCHANGED <<dfile, dmap, dwrites, RingLeaves>>

\* ss_handler_thread, step 4 after the two SYNC messages: recv_header on the
\* reconnecting server's socket returns (with whatever that server sends
\* next, or with its disconnect) and both flags are cleared; the transfer
\* between the two servers is not waited for
RingSyncAck ==
  /\ sync_wait # NoWait
  /\ is_syncing' = [is_syncing EXCEPT ![sync_wait.R] = FALSE,
                                      ![sync_wait.source] = FALSE]
  /\ sync_wait' = NoWait
  /\ UNCHANGED <<ringVars, ring_file_count, ring_file_map, sfile, repl_jobs,
                 file_cache, lastFind, cops, RingLeaves>>

\* ss_handler_thread, cleanup on disconnect or heartbeat timeout: the node
\* stays in the ring.  The storage server process has ended, and its
\* replication queue with it.
RingDisconnect(m) ==
  /\ ss_node[m].is_online
  /\ sync_wait.R # m
  /\ ss_node' = [ss_node EXCEPT ![m].is_online = FALSE]
  /\ is_syncing' = [is_syncing EXCEPT ![m] = FALSE]
  /\ repl_jobs' = [repl_jobs EXCEPT ![m] = <<>>]
  /\ UNCHANGED <<ring_file_count, ring_file_map, sfile, sync_wait, file_cache,
                 lastFind, cops>>
  /\ UNCHANGED <<ring, dfile, dmap, rec, lastRecovery, reconnects, dwrites, RingLeaves>>

\* what the replication of d.txt from server p leaves on the servers, once
\* p's worker has processed the job: the target is the server p was told to
\* send to
Replicated(files0, p) ==
  LET b == ss_node[p].backup_ss_id IN
  IF b # NoSS /\ ss_node[b].is_online THEN [files0 EXCEPT ![b] = files0[p]] ELSE files0

\* handle_create for d.txt: get_ss_for_new_file picks an online server; the
\* file map entry keeps the primary and its backup
DCreate(m) ==
  /\ dmap = NoMap
  /\ ss_node[m].is_online
  /\ dmap' = [primary_ss_id |-> m, backup_ss_id |-> ss_node[m].backup_ss_id]
  /\ dfile' = Replicated([dfile EXCEPT ![m] = <<>>], m)
  /\ UNCHANGED <<ring, ss_node, rec, lastRecovery, reconnects, dwrites, clVars,
                 RingLeaves>>

\* find_ss_for_file: the primary when it is online, else the backup
find_ss_for_d ==
  IF dmap.primary_ss_id # NoSS /\ ss_node[dmap.primary_ss_id].is_online
  THEN dmap.primary_ss_id
  ELSE IF dmap.backup_ss_id # NoSS /\ ss_node[dmap.backup_ss_id].is_online
       THEN dmap.backup_ss_id
       ELSE NoSS

\* a WRITE to d.txt that commits on the server find_ss_for_file gives; the
\* copy on the backup is not replicated further
DWrite(text) ==
  LET s == find_ss_for_d IN
  /\ dmap # NoMap
  /\ dwrites < MaxWritesD
  /\ s # NoSS
  /\ dfile[s] # NoFile
  /\ dwrites' = dwrites + 1
  /\ dfile' = IF s = dmap.primary_ss_id
              THEN Replicated([dfile EXCEPT ![s] = text], s)
              ELSE [dfile EXCEPT ![s] = text]
  /\ UNCHANGED <<ring, ss_node, dmap, rec, lastRecovery, reconnects, clVars,
                 RingLeaves>>

\* ss_handle_sync_from_backup on the source: connect to the target port,
\* START_RECOVERY, file list, files, RECOVERY_COMPLETE.  On the target,
\* ss_handle_recovery_connection removes its files and stores the ones it
\* receives; handle_replication_receive answers the START_RECOVERY header with
\* an ACK and closes.
SyncFromBackup ==
  /\ rec.pc = "sync"
  /\ IF ss_node[rec.R].is_online /\ ss_node[rec.source].is_online
        /\ RecoveryHandler(rec.port) = "ss_handle_recovery_connection"
     THEN /\ dfile' = [dfile EXCEPT ![rec.R] = dfile[rec.source]]
          /\ sfile' = [sfile EXCEPT ![rec.R] =
                         [f \in CFiles |-> IF sfile[rec.source][f] = "none"
                                           THEN "none" ELSE "primary"]]
          /\ rec' = [rec EXCEPT !.pc = "done", !.complete = TRUE]
     ELSE /\ dfile' = dfile
          /\ sfile' = sfile
          /\ rec' = [rec EXCEPT !.pc = "done"]
  /\ UNCHANGED <<is_syncing, ring_file_count, ring_file_map, repl_jobs, sync_wait,
                 file_cache, lastFind, cops>>
  /\ UNCHANGED <<ring, ss_node, dmap, lastRecovery, reconnects, dwrites, RingLeaves>>

\* the same transfer with the START_RECOVERY connection accepted by
\* handle_connection, which dispatches it to ss_handle_recovery_connection:
\* the source sends every regular file of files/ that has a metadata entry,
\* whatever its is_backup flag; the target removes its files and entries and
\* inserts each file received with is_backup = !is_primary_recovery = false
RecoveryConnection ==
  /\ rec.pc = "sync"
  /\ IF ss_node[rec.R].is_online /\ ss_node[rec.source].is_online
     THEN /\ dfile' = [dfile EXCEPT ![rec.R] = dfile[rec.source]]
          /\ sfile' = [sfile EXCEPT ![rec.R] =
                         [f \in CFiles |-> IF sfile[rec.source][f] = "none"
                                           THEN "none" ELSE "primary"]]
          /\ rec' = [rec EXCEPT !.pc = "done", !.complete = TRUE]
     ELSE /\ dfile' = dfile
          /\ sfile' = sfile
          /\ rec' = [rec EXCEPT !.pc = "done"]
  /\ UNCHANGED <<is_syncing, ring_file_count, ring_file_map, repl_jobs, sync_wait,
                 file_cache, lastFind, cops>>
  /\ UNCHANGED <<ring, ss_node, dmap, lastRecovery, reconnects, dwrites, RingLeaves>>

-----------------------------------------------------------------------------
(* ns_handler.c: CREATE and DELETE of the clients of the ring, with the
   storage server handlers they call; ss_replicator.c: each server's
   replication worker and the listener of its target *)

ClLeaves == <<ring, ss_node, dfile, dmap, rec, lastRecovery, reconnects, dwrites,
              RingLeaves>>

Online == {m \in Range(ring) : ss_node[m].is_online}

\* get_ss_for_new_file: the walk from the head keeps the first server that
\* is online, not syncing and has a file_count below the least seen so far
ring_get_ss_for_new_file ==
  LET ok == {i \in 1..Len(ring) : ss_node[ring[i]].is_online /\ ~is_syncing[ring[i]]}
      least == {i \in ok : \A j \in ok : ring_file_count[ring[i]] <= ring_file_count[ring[j]]}
  IN  IF ok = {} THEN NoSS
      ELSE ring[CHOOSE i \in least : \A j \in least : i <= j]

CachedAny(f) == file_cache[f]

\* find_ss_for_file, step 1: the cached server when it is online
CachedSS(f) ==
  IF file_cache[f] # NoSS /\ ss_node[file_cache[f]].is_online THEN file_cache[f] ELSE NoSS

\* find_ss_for_file, steps 2 to 5
ring_find_ss_for_file(f) ==
  LET node == ring_file_map[f]
  IN  IF CachedSS(f) # NoSS THEN CachedSS(f)
      ELSE IF node = NoMap THEN NoSS
      ELSE IF ss_node[node.primary_ss_id].is_online THEN node.primary_ss_id
      ELSE IF node.backup_ss_id # NoSS /\ ss_node[node.backup_ss_id].is_online
           THEN node.backup_ss_id
      ELSE NoSS

\* lru_cache_put when the walk found the primary online
CacheAfterFind(f) ==
  LET node == ring_file_map[f]
  IN  IF CachedSS(f) = NoSS /\ node # NoMap /\ ss_node[node.primary_ss_id].is_online
      THEN [file_cache EXCEPT ![f] = node.primary_ss_id]
      ELSE file_cache

FindRecord(f) ==
  [f |-> f, map |-> ring_file_map[f], online |-> Online,
   result |-> ring_find_ss_for_file(f)]

\* handle_create: duplicate check, placement, MSG_N2S_CREATE_FILE to the
\* primary (ss_handle_create_file: fopen "w", metadata with is_backup = false,
\* repl_schedule_update), access entry, file map record.  ok: the storage
\* server answered with success.
CCreate(f, ok) ==
  LET ss == ring_get_ss_for_new_file IN
  /\ cops < MaxCOps
  /\ cops' = cops + 1
  /\ ring_file_map[f] = NoMap
  /\ IF ss = NoSS
     THEN UNCHANGED <<ring_file_count, ring_file_map, sfile, repl_jobs>>
     ELSE /\ ring_file_count' = [ring_file_count EXCEPT ![ss] = @ + 1]
          /\ IF ok
             THEN /\ sfile' = [sfile EXCEPT ![ss][f] = "primary"]
                  /\ repl_jobs' = [repl_jobs EXCEPT ![ss] =
                                     Schedule(@, [type |-> "update", f |-> f])]
                  /\ ring_file_map' = [ring_file_map EXCEPT ![f] =
                                         [primary_ss_id |-> ss,
                                          backup_ss_id |-> ss_node[ss].backup_ss_id]]
             ELSE UNCHANGED <<ring_file_map, sfile, repl_jobs>>
  /\ UNCHANGED <<is_syncing, sync_wait, file_cache, lastFind, ClLeaves>>

\* ss_handle_delete_file on server x: unlink, metadata_table_remove,
\* repl_schedule_delete
DeletedOn(sf, x, f) == [sf EXCEPT ![x][f] = "none"]

\* handle_delete by the owner: the record, find_ss_for_file,
\* MSG_N2S_DELETE_FILE to the server found and then to the record's backup,
\* file_count, file map, cache
CDelete(f) ==
  LET node == ring_file_map[f]
      ss == ring_find_ss_for_file(f)
      b == node.backup_ss_id
      also == b # NoSS /\ b # ss /\ ss_node[b].is_online /\ sfile[b][f] # "none"
      del == [type |-> "delete", f |-> f]
  IN
  /\ cops < MaxCOps
  /\ cops' = cops + 1
  /\ node # NoMap
  /\ lastFind' = FindRecord(f)
  /\ IF ss = NoSS \/ sfile[ss][f] = "none"
     THEN /\ file_cache' = CacheAfterFind(f)
          /\ UNCHANGED <<ring_file_count, ring_file_map, sfile, repl_jobs>>
     ELSE /\ sfile' = IF also THEN DeletedOn(DeletedOn(sfile, ss, f), b, f)
                      ELSE DeletedOn(sfile, ss, f)
          /\ repl_jobs' = [x \in Machines |->
                             IF x = ss \/ (also /\ x = b) THEN Schedule(repl_jobs[x], del)
                             ELSE repl_jobs[x]]
          /\ ring_file_count' = [ring_file_count EXCEPT ![ss] = IF @ > 0 THEN @ - 1 ELSE @]
          /\ ring_file_map' = [ring_file_map EXCEPT ![f] = NoMap]
          /\ file_cache' = [file_cache EXCEPT ![f] = NoSS]
  /\ UNCHANGED <<is_syncing, sync_wait, ClLeaves>>

\* handle_ss_redirect for a READ or WRITE of f: find_ss_for_file
CFind(f) ==
  /\ lastFind' = FindRecord(f)
  /\ file_cache' = CacheAfterFind(f)
  /\ UNCHANGED <<is_syncing, ring_file_count, ring_file_map, sfile, repl_jobs, sync_wait,
                 cops, ClLeaves>>

\* repl_worker_thread of server m takes the next job.  The target is the
\* server the name server assigned (REGISTER_ACK, UPDATE_BACKUP).  An update
\* is skipped for a file that is missing or flagged is_backup; with the
\* target unreachable an update is pushed again and a delete is dropped.  The
\* target's handle_replication_receive stores the file with is_backup = true,
\* or unlinks it and removes its metadata.
CReplWorker(m) ==
  LET job == Head(repl_jobs[m])
      t == ss_node[m].backup_ss_id
      up == t # NoSS /\ ss_node[t].is_online
      sends == job.type = "delete" \/ sfile[m][job.f] = "primary"
  IN
  /\ ss_node[m].is_online
  /\ repl_jobs[m] # <<>>
  /\ repl_jobs' = [repl_jobs EXCEPT ![m] =
                     IF sends /\ ~up /\ job.type = "update"
                     THEN Schedule(Tail(@), job) ELSE Tail(@)]
  /\ sfile' = IF sends /\ up
              THEN [sfile EXCEPT ![t][job.f] =
                      IF job.type = "update" THEN "backup" ELSE "none"]
              ELSE sfile
  /\ UNCHANGED <<is_syncing, ring_file_count, ring_file_map, sync_wait, file_cache,
                 lastFind, cops, ClLeaves>>

ClusterNext ==
  \/ \E m \in Machines : RingRegister(m)
  \/ RingSyncAck
  \/ \E m \in Machines : RingDisconnect(m)
  \/ SyncFromBackup
  \/ \E f \in CFiles, ok \in BOOLEAN : CCreate(f, ok)
  \/ \E f \in CFiles : CDelete(f)
  \/ \E m \in Machines : CReplWorker(m)

\* a ring of two with the recovery connection reaching its handler
RecMachines == {"m0", "m1"}

RecoveryNext ==
  \/ \E m \in RecMachines : RingRegister(m)
  \/ RingSyncAck
  \/ \E m \in RecMachines : RingDisconnect(m)
  \/ RecoveryConnection
  \/ \E f \in CFiles, ok \in BOOLEAN : CCreate(f, ok)
  \/ \E f \in CFiles : CDelete(f)
  \/ \E m \in RecMachines : CReplWorker(m)

FindNext ==
  \/ \E m \in Machines : RingRegister(m)
  \/ RingSyncAck
  \/ \E m \in Machines : RingDisconnect(m)
  \/ SyncFromBackup
  \/ \E f \in CFiles, ok \in BOOLEAN : CCreate(f, ok)
  \/ \E f \in CFiles : CDelete(f)
  \/ \E f \in CFiles : CFind(f)

-----------------------------------------------------------------------------
(* ns_user_manager.c and ns_handler.c: the user registry and the sessions of
   the clients, from LOGIN to the cleanup after the connection drops *)

\* find_user: the index of the first entry with that username, 0 for NULL
find_user(list, username) ==
  LET at == {i \in 1..Len(list) : list[i].username = username}
  IN  IF at = {} THEN 0 ELSE CHOOSE i \in at : \A j \in at : i <= j

\* a registry that activates a username whether it is active or not
activate_user_again(list, username) ==
  LET i == find_user(list, username)
  IN  IF i # 0
        THEN [list |-> [list EXCEPT ![i].is_active = TRUE], success |-> TRUE]
        ELSE [list |-> Append(list, [username |-> username, is_active |-> TRUE]),
              success |-> TRUE]

\* activate_user: the list afterwards and the value returned
activate_user(list, username) ==
  LET i == find_user(list, username)
  IN  IF i # 0
        THEN IF list[i].is_active
               THEN [list |-> list, success |-> FALSE]
               ELSE [list |-> [list EXCEPT ![i].is_active = TRUE],
                     success |-> TRUE]
        ELSE [list |-> Append(list, [username |-> username, is_active |-> TRUE]),
              success |-> TRUE]

set_user_active(list, username, active) ==
  LET i == find_user(list, username)
  IN  IF i # 0 THEN [list EXCEPT ![i].is_active = active] ELSE list

UsLeaves == <<ssVars, histVars, nsVars, usOthers>>

\* the name server accepts a connection and starts handle_client_request
Connect(s) ==
  /\ session[s].state = "closed"
  /\ session' = [session EXCEPT ![s] = [state |-> "connected", username |-> ""]]
  /\ UNCHANGED <<user_list, user_db, holder, UsLeaves>>

\* handle_login: the first message of the connection is LOGIN username
Login(s, username) ==
  /\ session[s].state = "connected"
  /\ LET r == activate_user(user_list, username)
     IN  /\ user_list' = r.list
         /\ IF r.success
              THEN /\ user_db' = r.list
                   /\ session' = [session EXCEPT
                                    ![s] = [state |-> "logged_in",
                                            username |-> username]]
                   /\ holder' = [holder EXCEPT ![username] = s]
              ELSE /\ session' = [session EXCEPT ![s] = NoSession]
                   /\ UNCHANGED <<user_db, holder>>
  /\ UNCHANGED UsLeaves

\* the connection drops: before LOGIN handle_login returns false and the
\* thread ends; afterwards the request loop breaks and the cleanup runs
Disconnect(s) ==
  /\ session[s].state # "closed"
  /\ IF session[s].state = "logged_in"
       THEN /\ user_list' = set_user_active(user_list, session[s].username, FALSE)
            /\ user_db' = user_list'
            /\ holder' = [holder EXCEPT ![session[s].username] = 0]
       ELSE UNCHANGED <<user_list, user_db, holder>>
  /\ session' = [session EXCEPT ![s] = NoSession]
  /\ UNCHANGED UsLeaves

LoginNext ==
  \/ \E s \in Sessions : Connect(s)
  \/ \E s \in Sessions, username \in LoginNames : Login(s, username)
  \/ \E s \in Sessions : Disconnect(s)

RingNext ==
  \/ \E m \in Machines : RingRegister(m)
  \/ RingSyncAck
  \/ \E m \in Machines : RingDisconnect(m)
  \/ \E m \in Machines : DCreate(m)
  \/ \E text \in {TextHi, TextNew} : DWrite(text)
  \/ SyncFromBackup

vars == <<ssVars, histVars, nsVars, extVars>>

\* WRITE transactions only
WriteNext ==
  \/ \E t \in Writers : WriteStep(t, SentenceNums, DataMsgs, MaxTxn)
  \/ ReplWorker

SpecWrite == SSInit /\ [][WriteNext]_vars

\* one client whose WRITE requests name any index, the negative one included
IndexNext ==
  \/ WriteStep("w1", IndexNums, OpDataMsgs, MaxOpTxn)
  \/ WriteTryLockOutside("w1")
  \/ ReplWorker

SpecWriteIndex == SSInit /\ [][IndexNext]_vars

\* one client whose transaction holds several WRITE_DATA messages
DataNext ==
  \/ \E n \in OpSentenceNums : WriteGetLock("w1", n, MaxOpTxn)
  \/ WriteTryLock("w1")
  \/ WriteCopySwap("w1")
  \/ WriteCopyUndo("w1")
  \/ \E msg \in WordMsgs : WriteRecvDataUpTo("w1", msg, MaxDataSeq)
  \/ WriteRecvETIRW("w1")
  \/ WriteRecvClose("w1")
  \/ WriteRecvBroken("w1")
  \/ WriteCommitLock("w1")
  \/ WriteCommit("w1")

SpecWriteData == SSInit /\ [][DataNext]_vars

\* WRITE transactions next to the requests of the other client
SSNext ==
  \/ \E t \in Writers : WriteStep(t, OpSentenceNums, OpDataMsgs, MaxOpTxn)
  \/ OpStep
  \/ ReplWorker

SpecSS == SSInit /\ [][SSNext]_vars

\* WRITE transactions next to a client that reads
ReadNext ==
  \/ \E t \in Writers : WriteStep(t, OpSentenceNums, OpDataMsgs, MaxOpTxn)
  \/ ReadStep
  \/ ReplWorker

SpecRead == SSInit /\ [][ReadNext]_vars

\* two clients that take checkpoints, next to WRITE transactions
CkptNext ==
  \/ \E t \in Writers : WriteStep(t, OpSentenceNums, OpDataMsgs, MaxOpTxn)
  \/ \E tag \in Tags : CheckpointCheck(tag)
  \/ CheckpointCopy
  \/ Checkpoint2Step
  \/ ReplWorker

SpecCkpt == SSInit /\ [][CkptNext]_vars

\* a server with its clients, its replication worker, its backup target and
\* its replication listener
ReplNext ==
  \/ WriteStep("w1", OpSentenceNums, OpDataMsgs, 1)
  \/ DeleteBegin
  \/ DeleteFinish
  \/ Create
  \/ ReplStep
  \/ BackupDown
  \/ BackupUp
  \/ RinStep

SpecRepl == SSInit /\ [][ReplNext]_vars

\* a primary with its clients, its replication worker and its backup target;
\* the worker thread loops on the queue for as long as the server runs
ReplFairNext ==
  \/ WriteStep("w1", OpSentenceNums, OpDataMsgs, 1)
  \/ DeleteBegin
  \/ DeleteFinish
  \/ Create
  \/ ReplStep
  \/ BackupDown
  \/ BackupUp

SpecReplFair == SSInit /\ [][ReplFairNext]_vars /\ WF_vars(ReplStep)

\* the name server's ring and the recovery of a server that reconnects
SpecRing == NSInit /\ [][RingNext]_vars

\* the ring with clients that create, delete and look up files
SpecCluster == NSInit /\ [][ClusterNext]_vars

SpecRecovery == NSInit /\ [][RecoveryNext]_vars

\* the ring with clients that create, delete and look up files, without the
\* replication workers
SpecFind == NSInit /\ [][FindNext]_vars

\* the clients that connect, log in and disconnect
SpecLogin == NSInit /\ [][LoginNext]_vars

\* the server that holds the copy: its clients and its replication listener
ReadReplNext ==
  \/ WriteStep("w1", OpSentenceNums, OpDataMsgs, 1)
  \/ ReadStep
  \/ RinStep
  \/ ReplWorker

CopyInit == InitCopy /\ SSStart /\ NSStart /\ ExtStart

SpecReadRepl == CopyInit /\ [][ReadReplNext]_vars



-----------------------------------------------------------------------------
(* The name server's handlers.  Each runs to its answer; the storage server *)
(* handler it calls runs within it.  The LRU cache of find_ss_for_file      *)
(* holds only servers taken from file-map records and loses an entry with   *)
(* its record, so a lookup through it gives what the file map gives.        *)

strchr(perms, c) == \E i \in 1..Len(perms) : perms[i] = c

is_owner(u, f) == strchr(access_table[u][f], "o")

\* handle_ss_redirect, step 1
has_access(type, perms) ==
  \/ type \in {"READ", "STREAM"} /\ strchr(perms, "r")
  \/ type \in {"WRITE", "UNDO"} /\ strchr(perms, "w")
  \/ type = "CHECKPOINT" /\ strchr(perms, "r")
  \/ strchr(perms, "o")

\* file map, keyed by (owner, filename)
file_map_table_search(owner, f) == file_map[owner][f]

\* the owners the search over all owners can come upon
file_map_table_find_owner(f) == {o \in Users : file_map[o][f] # 0}

\* get_ss_for_new_file: the first server of the list, among those online,
\* with the least file_count
get_ss_for_new_file ==
  LET online == {s \in Servers : ss_online[s]}
      least == {s \in online : \A r \in online : file_count[s] <= file_count[r]}
  IN  IF online = {} THEN 0
      ELSE CHOOSE s \in least : \A r \in least : s <= r

\* find_ss_for_file without a backup assigned: the primary when it is online
find_ss_for_file(owner, f) ==
  LET s == file_map_table_search(owner, f)
  IN  IF s # 0 /\ ss_online[s] THEN s ELSE 0

Answer(u, type, f, reply) ==
  /\ reqCount < MaxReq
  /\ reqCount' = reqCount + 1
  /\ lastReq' = [user |-> u, type |-> type, filename |-> f,
                 perms |-> access_table[u][f], reply |-> reply]

\* handle_create, with ss_handle_create_file on the chosen server:
\* fopen(files/F, "w") and metadata_table_insert under the requester's name
NSCreate(u, f) ==
  LET ss == get_ss_for_new_file
  IN
  /\ IF file_map_table_search(u, f) # 0
     THEN /\ Answer(u, "CREATE", f, "ALREADY_EXISTS")
          /\ UNCHANGED <<access_table, file_map, file_count, ss_files, ss_owner, own>>
     ELSE IF ss = 0
     THEN /\ Answer(u, "CREATE", f, "NO_SS")
          /\ UNCHANGED <<access_table, file_map, file_count, ss_files, ss_owner, own>>
     ELSE /\ Answer(u, "CREATE", f, "OK")
          /\ file_count' = [file_count EXCEPT ![ss] = @ + 1]
          /\ ss_files' = [ss_files EXCEPT ![ss][f] = <<>>]
          /\ ss_owner' = [ss_owner EXCEPT ![ss][f] = u]
          /\ access_table' = [access_table EXCEPT ![u][f] = PermOwner]
          /\ file_map' = [file_map EXCEPT ![u][f] = ss]
          /\ own' = [own EXCEPT ![u][f] = <<>>]
  /\ UNCHANGED <<ss_online, ticket, ssVars, histVars, extVars>>

\* handle_delete, with ss_handle_delete_file on the primary
NSDelete(u, f) ==
  LET ss == find_ss_for_file(u, f)
  IN
  /\ IF ~is_owner(u, f)
     THEN /\ Answer(u, "DELETE", f, "ACCESS_DENIED")
          /\ UNCHANGED <<access_table, file_map, file_count, ss_files, ss_owner, own>>
     ELSE IF file_map_table_search(u, f) = 0
     THEN /\ Answer(u, "DELETE", f, "NOT_FOUND")
          /\ UNCHANGED <<access_table, file_map, file_count, ss_files, ss_owner, own>>
     ELSE IF ss = 0
     THEN /\ Answer(u, "DELETE", f, "OFFLINE")
          /\ UNCHANGED <<access_table, file_map, file_count, ss_files, ss_owner, own>>
     ELSE IF ss_files[ss][f] = NoFile
     THEN /\ Answer(u, "DELETE", f, "SS_FAILED")
          /\ UNCHANGED <<access_table, file_map, file_count, ss_files, ss_owner, own>>
     ELSE /\ Answer(u, "DELETE", f, "OK")
          /\ ss_files' = [ss_files EXCEPT ![ss][f] = NoFile]
          /\ ss_owner' = [ss_owner EXCEPT ![ss][f] = None]
          /\ file_count' = [file_count EXCEPT ![ss] = IF @ > 0 THEN @ - 1 ELSE @]
          /\ file_map' = [file_map EXCEPT ![u][f] = 0]
          /\ access_table' = [access_table EXCEPT ![u][f] = NoPerm]
          /\ own' = [own EXCEPT ![u][f] = NoFile]
  /\ UNCHANGED <<ss_online, ticket, ssVars, histVars, extVars>>

\* handle_access_cmd: ADDACCESS -R, ADDACCESS -W, REMACCESS
NSAccess(u, target, f, cmd) ==
  /\ IF ~is_owner(u, f)
     THEN /\ Answer(u, cmd, f, "ACCESS_DENIED")
          /\ UNCHANGED access_table
     ELSE IF target \notin Users
     THEN /\ Answer(u, cmd, f, "NO_TARGET")
          /\ UNCHANGED access_table
     ELSE /\ Answer(u, cmd, f, "OK")
          /\ access_table' =
               [access_table EXCEPT ![target][f] =
                  IF cmd = "ADD_W" THEN PermReadWrite
                  ELSE IF cmd = "ADD_R" THEN PermRead
                  ELSE NoPerm]
  /\ UNCHANGED <<file_map, ss_online, file_count, ss_files, ss_owner, ticket, own,
                 ssVars, histVars, extVars>>

\* handle_ss_redirect: access check, owner resolution (the requester's own
\* record first, else a search over all owners), server lookup
NSRedirect(u, f, type) ==
  LET owners == IF file_map_table_search(u, f) # 0 THEN {u}
                ELSE file_map_table_find_owner(f)
  IN
  /\ IF ~has_access(type, access_table[u][f])
     THEN /\ Answer(u, type, f, "ACCESS_DENIED")
          /\ UNCHANGED ticket
     ELSE IF owners = {}
     THEN /\ Answer(u, type, f, "NOT_FOUND")
          /\ UNCHANGED ticket
     ELSE \E o \in owners :
            IF find_ss_for_file(o, f) = 0
            THEN /\ Answer(u, type, f, "OFFLINE")
                 /\ UNCHANGED ticket
            ELSE /\ Answer(u, type, f, "SS_LOC")
                 /\ ticket' = [ticket EXCEPT ![u] =
                                 [type |-> type, filename |-> f,
                                  ss |-> find_ss_for_file(o, f), owner |-> o]]
  /\ UNCHANGED <<access_table, file_map, ss_online, file_count, ss_files, ss_owner,
                 own, ssVars, histVars, extVars>>

RECURSIVE ApplyAll(_, _)
ApplyAll(words, msgs) ==
  IF msgs = <<>> THEN words ELSE ApplyAll(ApplyData(words, Head(msgs)), Tail(msgs))

\* ss_handle_write_transaction run from WRITE to ETIRW with nothing else
\* running on the file
WriteAlone(text, n, msgs) ==
  LET sentences == ss_split_sentences(text)
      words == ApplyAll(InitialWords(sentences, n), msgs)
  IN  IF ValidSentenceIndex(sentences, n)
      THEN ss_join_sentences(Splice(sentences, n, ss_join_words(words)))
      ELSE text

\* the client connects to the server it was sent to and writes; the storage
\* server handler looks at the file name only
SSWrite(u, msg) ==
  LET ss == ticket[u].ss
      f == ticket[u].filename
      new == WriteAlone(ss_files[ss][f], 0, <<msg>>)
  IN
  /\ ticket[u].type = "WRITE"
  /\ ticket' = [ticket EXCEPT ![u] = NoTicket]
  /\ IF ss_online[ss] /\ ss_files[ss][f] # NoFile
     THEN /\ ss_files' = [ss_files EXCEPT ![ss][f] = new]
          /\ own' = [own EXCEPT ![ticket[u].owner][f] = new]
     ELSE UNCHANGED <<ss_files, own>>
  /\ UNCHANGED <<access_table, file_map, ss_online, file_count, ss_owner, reqCount,
                 lastReq, ssVars, histVars, extVars>>

\* a client connects to the client port of storage server s and sends
\* MSG_C2S_READ for f: handle_connection routes every client connection to
\* ss_handle_read, which looks the file name up and streams the file; the
\* request is not checked against the name server or the access table
SSRead(u, s, f) ==
  /\ ss_online[s]
  /\ lastReq' = [user |-> u, type |-> "READ", filename |-> f,
                 perms |-> access_table[u][f],
                 reply |-> IF ss_files[s][f] # NoFile THEN "DATA" ELSE "SS_NOT_FOUND"]
  /\ UNCHANGED <<access_table, file_map, ss_online, file_count, ss_files, ss_owner,
                 ticket, reqCount, own, ssVars, histVars, extVars>>

\* ss_handler_thread ends on disconnect, or check_ss_heartbeats finds the
\* server silent: it is marked offline
SSOffline(s) ==
  /\ ss_online[s]
  /\ ss_online' = [ss_online EXCEPT ![s] = FALSE]
  /\ UNCHANGED <<access_table, file_map, file_count, ss_files, ss_owner, ticket,
                 reqCount, lastReq, own, ssVars, histVars, extVars>>

-----------------------------------------------------------------------------
(* ns_access.c: the access table, a file table of FileTableSize slots per
   user, with the CREATE and DELETE handlers of ns_handler.c that write it.
   The probe of file_ht_find_slot visits every slot (the size is prime), and
   an insert is attempted only below half the size, so the probe always ends
   on the entry, a free slot or a tombstone: a table is the entries it holds *)

file_ht_count(table) == Cardinality({f \in ANames : table[f] # NoPerm})

\* file_ht_insert: the table afterwards; nothing is inserted or replaced once
\* count has reached size / 2
file_ht_insert(table, filename, perms) ==
  IF file_ht_count(table) >= FileTableSize \div 2
    THEN table
    ELSE [table EXCEPT ![filename] = perms]

file_ht_delete(table, filename) == [table EXCEPT ![filename] = NoPerm]

\* user_ht_add_permission; the user table (101 slots) has room for the users
user_ht_add_permission(table, username, filename, perms) ==
  [table EXCEPT ![username] = file_ht_insert(@, filename, perms)]

user_ht_revoke_permission(table, username, filename) ==
  [table EXCEPT ![username] = file_ht_delete(@, filename)]

AcLeaves == <<ssVars, histVars, nsVars, acOthers>>

\* handle_create: ss says what get_ss_for_new_file and the storage server's
\* answer to MSG_N2S_CREATE_FILE come to
ACreate(u, f, ss) ==
  IF own_map[u][f]
    THEN /\ lastCreate' = [user |-> u, filename |-> f, reply |-> "ALREADY_EXISTS"]
         /\ UNCHANGED <<perm_tab, perm_db, own_map, AcLeaves>>
    ELSE IF ss # "OK"
    THEN /\ lastCreate' = [user |-> u, filename |-> f, reply |-> ss]
         /\ UNCHANGED <<perm_tab, perm_db, own_map, AcLeaves>>
    ELSE /\ perm_tab' = user_ht_add_permission(perm_tab, u, f, PermOwner)
         /\ perm_db' = perm_tab'
         /\ own_map' = [own_map EXCEPT ![u][f] = TRUE]
         /\ lastCreate' = [user |-> u, filename |-> f, reply |-> "OK"]
         /\ UNCHANGED AcLeaves

\* handle_delete: ss says what find_ss_for_file and the storage server's
\* answer to MSG_N2S_DELETE_FILE come to
ADelete(u, f, ss) ==
  /\ lastCreate' = NoCreate
  /\ IF ~strchr(perm_tab[u][f], "o") \/ ~own_map[u][f] \/ ss # "OK"
       THEN UNCHANGED <<perm_tab, perm_db, own_map>>
       ELSE /\ own_map' = [own_map EXCEPT ![u][f] = FALSE]
            /\ perm_tab' = user_ht_revoke_permission(perm_tab, u, f)
            /\ perm_db' = perm_tab'
  /\ UNCHANGED AcLeaves

\* a file table belongs to one user and no handler writes another user's
\* table on CREATE or DELETE: one user sends the requests
Creators == {"alice"}

AccessNext ==
  \/ \E u \in Creators, f \in ANames, ss \in {"OK", "NO_SS", "SS_FAILED"} :
        ACreate(u, f, ss)
  \/ \E u \in Creators, f \in ANames, ss \in {"OK", "OFFLINE", "SS_FAILED"} :
        ADelete(u, f, ss)

-----------------------------------------------------------------------------
(* ss_metadata.c: the metadata table, its count, and metadata.db, with the
   handlers of ss_file_manager.c that change an entry, save the table and
   reply.  A handler thread is followed from lock to lock: the change of the
   entry under its bucket lock, the change of count under count_lock, the
   save under all bucket locks, the reply *)

RECURSIVE EntriesFrom(_, _)
\* the entries metadata_table_save writes, from file f on
EntriesFrom(table, f) ==
  IF f > MaxMFiles THEN <<>>
  ELSE IF table[f] = Absent THEN EntriesFrom(table, f + 1)
  ELSE <<[filename |-> f, file_size |-> table[f]]>> \o EntriesFrom(table, f + 1)

\* metadata_table_save: total_count, then every entry of the table
metadata_table_save(table, count) ==
  [count |-> count, entries |-> EntriesFrom(table, 1)]

\* metadata_table_load: the first expected_count entries of the file; the
\* loop ends early where the file ends.  count is a uint32_t: below 0 it
\* stands for 2^32 + count, which is above any number of entries
metadata_table_load(db) ==
  LET n == IF 0 <= db.count /\ db.count < Len(db.entries)
             THEN db.count ELSE Len(db.entries)
  IN  [f \in MFiles |->
         IF \E i \in 1..n : db.entries[i].filename = f
           THEN (CHOOSE e \in {db.entries[i] : i \in 1..n} : e.filename = f).file_size
           ELSE Absent]

LoadedCount(db) ==
  Cardinality({f \in MFiles : metadata_table_load(db)[f] # Absent})

MdLeaves == <<ssVars, histVars, nsVars, mdOthers>>

InFlight(f) == \E t \in MThreads : mth[t].pc # "idle" /\ mth[t].f = f

\* ss_handle_create_file up to the end of inner_table_insert: fopen "w",
\* then the entry is inserted, or rewritten if the table has one
MCreate(t, f) ==
  /\ mth[t].pc = "idle"
  /\ pfile' = [pfile EXCEPT ![f] = TRUE]
  /\ mtab' = [mtab EXCEPT ![f] = 0]
  /\ mth' = [mth EXCEPT ![t] = [pc |-> IF mtab[f] = Absent THEN "count" ELSE "save",
                                op |-> "CREATE", f |-> f]]
  /\ UNCHANGED <<mcount, mdb, mlock, acked, MdLeaves>>

\* ss_handle_delete_file up to the end of inner_table_remove: the write lock,
\* unlink, then the entry is removed if there is one
MDelete(t, f) ==
  /\ mth[t].pc = "idle"
  /\ mlock[f] = "none"
  /\ pfile[f]
  /\ mlock' = [mlock EXCEPT ![f] = t]
  /\ pfile' = [pfile EXCEPT ![f] = FALSE]
  /\ mtab' = [mtab EXCEPT ![f] = Absent]
  /\ mth' = [mth EXCEPT ![t] = [pc |-> IF mtab[f] # Absent THEN "count" ELSE "save",
                                op |-> "DELETE", f |-> f]]
  /\ UNCHANGED <<mcount, mdb, acked, MdLeaves>>

\* the commit of ss_handle_write_transaction, ss_handle_undo and REVERT of
\* ss_handle_checkpoint: under the write lock the file gets its new content
\* and metadata_table_update_size, _counts, _modified_time write the entry,
\* each returning -1 where there is none
MUpdate(t, kind, f, size) ==
  /\ mth[t].pc = "idle"
  /\ mlock[f] = "none"
  /\ pfile[f]
  /\ mlock' = [mlock EXCEPT ![f] = t]
  /\ mtab' = [mtab EXCEPT ![f] = IF @ = Absent THEN Absent ELSE size]
  /\ mth' = [mth EXCEPT ![t] = [pc |-> "save", op |-> kind, f |-> f]]
  /\ UNCHANGED <<mcount, mdb, pfile, acked, MdLeaves>>

\* metadata_table_insert and metadata_table_remove after the bucket lock is
\* released: count++ or count-- under count_lock
MCount(t) ==
  /\ mth[t].pc = "count"
  /\ mcount' = IF mth[t].op = "CREATE" THEN mcount + 1 ELSE mcount - 1
  /\ mth' = [mth EXCEPT ![t].pc = "save"]
  /\ UNCHANGED <<mtab, mdb, pfile, mlock, acked, MdLeaves>>

\* metadata_table_save in the handler, then the write lock is released
MSave(t) ==
  /\ mth[t].pc = "save"
  /\ mdb' = metadata_table_save(mtab, mcount)
  /\ mlock' = [f \in MFiles |-> IF mlock[f] = t THEN "none" ELSE mlock[f]]
  /\ mth' = [mth EXCEPT ![t].pc = "reply"]
  /\ UNCHANGED <<mtab, mcount, pfile, acked, MdLeaves>>

\* the success response
MReply(t) ==
  /\ mth[t].pc = "reply"
  /\ acked' = [acked EXCEPT ![mth[t].f] = mtab[mth[t].f]]
  /\ mth' = [mth EXCEPT ![t] = IdleThread]
  /\ UNCHANGED <<mtab, mcount, mdb, pfile, mlock, MdLeaves>>

\* checkpoint_thread: the periodic save
MCheckpoint ==
  /\ mdb' = metadata_table_save(mtab, mcount)
  /\ UNCHANGED <<mtab, mcount, pfile, mlock, mth, acked, MdLeaves>>

\* the process is killed and started again: metadata_table_load; the scan
\* of files/ adds nothing, ss_get_file_metadata fails for a file without
\* an entry
MRestart ==
  /\ mtab' = metadata_table_load(mdb)
  /\ mcount' = LoadedCount(mdb)
  /\ mlock' = [f \in MFiles |-> "none"]
  /\ mth' = [t \in MThreads |-> IdleThread]
  /\ acked' = mtab'
  /\ UNCHANGED <<mdb, pfile, MdLeaves>>

MetaStep(threads) ==
  \/ \E t \in threads, f \in MFiles : MCreate(t, f)
  \/ \E t \in threads, f \in MFiles : MDelete(t, f)
  \/ \E t \in threads, f \in MFiles, size \in 1..MaxSize,
        kind \in {"WRITE", "UNDO", "REVERT"} : MUpdate(t, kind, f, size)
  \/ \E t \in threads : MCount(t)
  \/ \E t \in threads : MSave(t)
  \/ \E t \in threads : MReply(t)
  \/ MCheckpoint
  \/ MRestart

MetaNext == MetaStep(MThreads)

\* one request at a time
MetaSeqNext == MetaStep({"h1"})

-----------------------------------------------------------------------------
(* ns_ss_manager.c: one storage server's node, the handler thread of each   *)
(* of its connections and the heartbeat monitor.  The server sends its      *)
(* heartbeats on a live connection within the timeout; a connection is      *)
(* broken once the server's end of it is gone.                              *)

HbLeaves == <<ssVars, histVars, nsVars, hbOthers>>

\* the storage server starts and connects; ss_handler_thread, steps 1 and 2,
\* for a new node or for the node get_ss_by_ip finds
HbRegister(c) ==
  /\ hb_link[c] = "none"
  /\ \A d \in Conns : d < c => hb_link[d] = "broken"
  /\ hb_link' = [hb_link EXCEPT ![c] = "live"]
  /\ hb_thread' = [hb_thread EXCEPT ![c] = "loop"]
  /\ hb_open' = [hb_open EXCEPT ![c] = TRUE]
  /\ hb_online' = TRUE
  /\ hb_sock' = c
  /\ hb_stale' = FALSE
  /\ hb_active' = hb_active + 1
  /\ UNCHANGED HbLeaves

\* the storage server's process or its network goes away
HbDown(c) ==
  /\ hb_link[c] = "live"
  /\ hb_link' = [hb_link EXCEPT ![c] = "broken"]
  /\ UNCHANGED <<hb_online, hb_sock, hb_stale, hb_active, hb_thread, hb_open, HbLeaves>>

\* no heartbeat has set last_heartbeat for HEARTBEAT_TIMEOUT seconds
HbStale ==
  /\ \A c \in Conns : hb_link[c] # "live"
  /\ ~hb_stale
  /\ hb_stale' = TRUE
  /\ UNCHANGED <<hb_online, hb_sock, hb_active, hb_link, hb_thread, hb_open, HbLeaves>>

\* step 6, MSG_S2N_HEARTBEAT, and the test of the loop that follows it
HbHeartbeat(c) ==
  /\ hb_link[c] = "live"
  /\ hb_thread[c] = "loop"
  /\ hb_stale' = FALSE
  /\ hb_thread' = [hb_thread EXCEPT ![c] = IF hb_online THEN "loop" ELSE "cleanup"]
  /\ UNCHANGED <<hb_online, hb_sock, hb_active, hb_link, hb_open, HbLeaves>>

\* step 6 on a broken connection: recv_header <= 0, or poll times out
HbBreak(c) ==
  /\ hb_link[c] = "broken"
  /\ hb_thread[c] = "loop"
  /\ hb_thread' = [hb_thread EXCEPT ![c] = "cleanup"]
  /\ UNCHANGED <<hb_online, hb_sock, hb_stale, hb_active, hb_link, hb_open, HbLeaves>>

\* "Cleanup on disconnect": the node is marked, the thread's socket closed
HbCleanup(c) ==
  /\ hb_thread[c] = "cleanup"
  /\ hb_online' = FALSE
  /\ hb_sock' = -1
  /\ hb_active' = hb_active - 1
  /\ hb_open' = [hb_open EXCEPT ![c] = FALSE]
  /\ hb_thread' = [hb_thread EXCEPT ![c] = "done"]
  /\ UNCHANGED <<hb_stale, hb_link, HbLeaves>>

\* check_ss_heartbeats, for a node it finds online and stale
check_ss_heartbeats ==
  /\ hb_online
  /\ hb_stale
  /\ hb_online' = FALSE
  /\ hb_active' = hb_active - 1
  /\ hb_open' = IF hb_sock # -1 THEN [hb_open EXCEPT ![hb_sock] = FALSE] ELSE hb_open
  /\ hb_sock' = -1
  /\ UNCHANGED <<hb_stale, hb_link, hb_thread, HbLeaves>>

HeartbeatNext ==
  \/ \E c \in Conns : HbRegister(c)
  \/ \E c \in Conns : HbDown(c)
  \/ HbStale
  \/ \E c \in Conns : HbHeartbeat(c)
  \/ \E c \in Conns : HbBreak(c)
  \/ \E c \in Conns : HbCleanup(c)
  \/ check_ss_heartbeats

-----------------------------------------------------------------------------
(* The locks of a storage server and of the name server.  A handler is the  *)
(* sequence of its lock calls, in the order the source makes them, the      *)
(* calls of the functions it calls included.  A thread runs one handler at  *)
(* a time; pthread_mutex_lock, pthread_rwlock_rdlock and                    *)
(* pthread_rwlock_wrlock wait until the lock can be taken,                  *)
(* pthread_mutex_trylock never waits.                                       *)

LkLeaves == <<ssVars, histVars, nsVars, lkOthers>>

\* ss_metadata.c, metadata_table_get and metadata_table_update_*: the
\* file's outer bucket lock, alone
metadata_table_update_locks ==
  <<<<"lock", MetaBuckets[1]>>, <<"unlock", MetaBuckets[1]>>>>

\* ss_metadata.c, metadata_table_remove: the bucket lock is released before
\* the count lock is taken
metadata_table_remove_locks ==
  metadata_table_update_locks \o <<<<"lock", "count">>, <<"unlock", "count">>>>

\* ss_metadata.c, metadata_table_save: every bucket lock in index order,
\* the count lock inside them, the bucket locks released after the write
metadata_table_save_locks ==
  [i \in 1..Len(MetaBuckets) |-> <<"lock", MetaBuckets[i]>>]
    \o <<<<"lock", "count">>, <<"unlock", "count">>>>
    \o [i \in 1..Len(MetaBuckets) |-> <<"unlock", MetaBuckets[i]>>]

\* ss_handle_read: metadata_table_exists and
\* metadata_table_update_access_time, then the file's read lock
ss_handle_read_locks ==
  metadata_table_update_locks \o metadata_table_update_locks
    \o <<<<"rdlock", "file">>, <<"unlock", "file">>>>

\* ss_handle_delete_file: the file's write lock around the unlink, then
\* metadata_table_remove and metadata_table_save
ss_handle_delete_file_locks ==
  <<<<"wrlock", "file">>, <<"unlock", "file">>>>
    \o metadata_table_remove_locks \o metadata_table_save_locks

\* ss_handle_write_transaction: the sentence mutex by trylock; a
\* transaction that ends before its commit releases it; the commit takes
\* the file's write lock, updates size, counts and modification time, saves
\* the table and releases the write lock, then the sentence mutex
ss_handle_write_transaction_locks(sentence, full) ==
  IF ~full
    THEN <<<<"trylock", sentence>>, <<"unlock", sentence>>>>
    ELSE <<<<"trylock", sentence>>, <<"wrlock", "file">>>>
           \o metadata_table_update_locks \o metadata_table_update_locks
           \o metadata_table_update_locks \o metadata_table_save_locks
           \o <<<<"unlock", "file">>, <<"unlock", sentence>>>>

\* ss_handle_recovery_connection: per old file, the write lock around the
\* unlink and metadata_table_remove
recovery_connection_locks ==
  <<<<"wrlock", "file">>>> \o metadata_table_remove_locks
    \o <<<<"unlock", "file">>>>

\* a variant of find_ss_for_file that releases the cache mutex of its
\* first lookup only once it holds the list mutex
find_ss_for_file_cache_held(full) ==
  IF ~full
    THEN <<<<"lock", "cache">>, <<"unlock", "cache">>>>
    ELSE <<<<"lock", "cache">>, <<"lock", "ss_list">>, <<"unlock", "cache">>,
           <<"lock", "cache">>, <<"unlock", "cache">>, <<"unlock", "ss_list">>>>

\* find_ss_for_file: the cache lookup under the cache mutex; after a miss
\* the list mutex, and inside it the cache mutex again for lru_cache_put
find_ss_for_file_locks(full) ==
  IF ~full
    THEN <<<<"lock", "cache">>, <<"unlock", "cache">>>>
    ELSE <<<<"lock", "cache">>, <<"unlock", "cache">>, <<"lock", "ss_list">>,
           <<"lock", "cache">>, <<"unlock", "cache">>, <<"unlock", "ss_list">>>>

\* handle_view_req_access: the request mutex around the loop, is_owner's
\* access-table mutex inside it
handle_view_req_access_locks ==
  <<<<"lock", "access_req">>, <<"lock", "access_table">>,
    <<"unlock", "access_table">>, <<"unlock", "access_req">>>>

\* handle_access_cmd: the access-table mutex, released, then the request
\* mutex
handle_access_cmd_locks ==
  <<<<"lock", "access_table">>, <<"unlock", "access_table">>,
    <<"lock", "access_req">>, <<"unlock", "access_req">>>>

LkHandlers ==
  [fn : {"read", "delete", "recovery", "view", "access"},
   sentence : {"sentence0"}, full : {TRUE}]
    \cup [fn : {"write"}, sentence : LkSentences, full : BOOLEAN]
    \cup [fn : {"find"}, sentence : {"sentence0"}, full : BOOLEAN]

LockProgram(h) ==
  CASE h.fn = "read" -> ss_handle_read_locks
    [] h.fn = "delete" -> ss_handle_delete_file_locks
    [] h.fn = "write" -> ss_handle_write_transaction_locks(h.sentence, h.full)
    [] h.fn = "recovery" -> recovery_connection_locks
    [] h.fn = "find" -> find_ss_for_file_locks(h.full)
    [] h.fn = "view" -> handle_view_req_access_locks
    [] h.fn = "access" -> handle_access_cmd_locks
    [] OTHER -> <<>>

LkRunning(t) == lk_pc[t].h # IdleLk

\* the lock call the thread makes next
LkCall(t) == LockProgram(lk_pc[t].h)[lk_pc[t].i]

\* the call can take the lock now: a read lock unless a writer holds it,
\* everything else only a free lock
LkFree(call) ==
  IF call[1] = "rdlock" THEN ~lk_writer[call[2]] ELSE lk_held[call[2]] = {}

\* a connection's thread is handed a request
LkBegin(t, h) ==
  /\ lk_pc[t].h = IdleLk
  /\ lk_pc' = [lk_pc EXCEPT ![t] = [h |-> h, i |-> 1]]
  /\ UNCHANGED <<lk_held, lk_writer, LkLeaves>>

LkTake(t) ==
  /\ lk_held' = [lk_held EXCEPT ![LkCall(t)[2]] = @ \cup {t}]
  /\ lk_writer' = [lk_writer EXCEPT ![LkCall(t)[2]] = LkCall(t)[1] # "rdlock"]
  /\ lk_pc' = [lk_pc EXCEPT ![t].i = @ + 1]

\* pthread_mutex_lock, pthread_rwlock_rdlock, pthread_rwlock_wrlock return
LkAcquire(t) ==
  /\ LkRunning(t)
  /\ LkCall(t)[1] \in {"lock", "rdlock", "wrlock"}
  /\ LkFree(LkCall(t))
  /\ LkTake(t)
  /\ UNCHANGED LkLeaves

\* pthread_mutex_trylock: the lock, or WRITE_LOCKED and the handler returns
LkTry(t) ==
  /\ LkRunning(t)
  /\ LkCall(t)[1] = "trylock"
  /\ IF LkFree(LkCall(t))
       THEN LkTake(t)
       ELSE /\ lk_pc' = [lk_pc EXCEPT ![t] = [h |-> IdleLk, i |-> 0]]
            /\ UNCHANGED <<lk_held, lk_writer>>
  /\ UNCHANGED LkLeaves

\* pthread_mutex_unlock, pthread_rwlock_unlock; every handler returns after
\* its last unlock
LkRelease(t) ==
  /\ LkRunning(t)
  /\ LkCall(t)[1] = "unlock"
  /\ lk_held' = [lk_held EXCEPT ![LkCall(t)[2]] = @ \ {t}]
  /\ lk_writer' = [lk_writer EXCEPT ![LkCall(t)[2]] = FALSE]
  /\ lk_pc' = [lk_pc EXCEPT ![t] =
                 IF @.i = Len(LockProgram(@.h)) THEN [h |-> IdleLk, i |-> 0]
                 ELSE [@ EXCEPT !.i = @ + 1]]
  /\ UNCHANGED LkLeaves

LocksNext ==
  \/ \E t \in LkThreads, h \in LkHandlers : LkBegin(t, h)
  \/ \E t \in LkThreads : LkAcquire(t)
  \/ \E t \in LkThreads : LkTry(t)
  \/ \E t \in LkThreads : LkRelease(t)

NSNext ==
  \/ \E u \in Users, f \in Filenames : NSCreate(u, f)
  \/ \E u \in Users, f \in Filenames : NSDelete(u, f)
  \/ \E u \in Users, target \in Targets, f \in Filenames,
        cmd \in {"ADD_R", "ADD_W", "REM"} : NSAccess(u, target, f, cmd)
  \/ \E u \in Users, f \in Filenames, type \in {"READ", "WRITE"} :
        NSRedirect(u, f, type)
  \/ \E u \in Users, msg \in OpDataMsgs : SSWrite(u, msg)
  \/ \E u \in Users, s \in Servers, f \in Filenames : SSRead(u, s, f)
  \/ \E s \in Servers : SSOffline(s)

SpecNS == NSInit /\ [][NSNext]_vars

\* the users that create and delete files, and the access table
SpecAccess == NSInit /\ [][AccessNext]_vars

\* one storage server that connects, goes away and connects again
SpecHeartbeat == NSInit /\ [][HeartbeatNext]_vars

\* threads of a storage server and of the name server that take locks
SpecLocks == NSInit /\ [][LocksNext]_vars

\* a storage server's metadata under requests served at the same time, with
\* the periodic save and restarts
SpecMeta == NSInit /\ [][MetaNext]_vars

\* the same with one request at a time
SpecMetaSeq == NSInit /\ [][MetaSeqNext]_vars

-----------------------------------------------------------------------------
(* Properties of the WRITE transaction *)

\* a transaction is open from WRITE_OK until it ends
TxOpen(t) == wtx[t].pc \in {"open", "wrlock", "merge"}

\* C1: at any time at most one WRITE transaction is open on a given
\* sentence of F
C1_OneOpenPerSentence ==
  \A t1, t2 \in Writers :
     (t1 # t2 /\ TxOpen(t1) /\ TxOpen(t2))
        => wtx[t1].sentence_num # wtx[t2].sentence_num

\* the characters of pre with the span of sentence n replaced by w, or with
\* w added at the end when n is the number of sentences
LiteralReplace(pre, n, w) ==
  LET S == ss_split_sentences(pre)
      before == Len(ss_join_sentences(SubSeq(S, 1, n)))
      first == IF n + 1 = Len(S) THEN Len(pre) - Len(S[n + 1]) + 1 ELSE before + 1
  IN  IF n >= Len(S) THEN pre \o w
      ELSE SubSeq(pre, 1, first - 1) \o w
           \o SubSeq(pre, first + Len(S[n + 1]), Len(pre))

\* the sentences of pre with sentence n replaced by w, or with w appended
\* when n is the number of sentences; every other sentence as it was
SentenceReplace(pre, n, w) ==
  LET S == ss_split_sentences(pre)
  IN  [i \in 1..(IF n < Len(S) THEN Len(S) ELSE Len(S) + 1) |->
         IF i = n + 1 THEN w ELSE S[i]]

\* C2: a commit leaves in files/F exactly the characters files/F
\* had when the coarse write lock was acquired, with sentence n replaced by
\* the working sentence (appended when n is the sentence count)
C2_CommitIsLiteralReplace ==
  (lastCommit # NoCommit /\ lastCommit.pre # NoFile)
     => lastCommit.post = LiteralReplace(lastCommit.pre, lastCommit.sentence_num,
                                         lastCommit.new_sentence)

\* what a commit does leave in files/F: the concatenation of the sentences
\* of the content at the time the coarse write lock was acquired, as
\* ss_split_sentences gives them, with sentence n replaced by the working
\* sentence (appended when n is the sentence count)
CommitReplacesSentence ==
  (lastCommit # NoCommit /\ lastCommit.pre # NoFile)
     => lastCommit.post =
          ss_join_sentences(SentenceReplace(lastCommit.pre, lastCommit.sentence_num,
                                            lastCommit.new_sentence))

\* C3: a transaction whose client closed the connection after WRITE_OK and
\* before WRITE_ETIRW never commits
C3_CloseNeverCommits == ~closedCommit

\* the sentence edits of a log applied one after another
RECURSIVE ApplyEdits(_, _)
ApplyEdits(text, edits) ==
  IF edits = <<>> THEN text
  ELSE ApplyEdits(ss_join_sentences(SentenceReplace(text, Head(edits).sentence_num,
                                                   Head(edits).new_sentence)),
                  Tail(edits))

DifferentSentences(edits) ==
  \A i, j \in 1..Len(edits) : i # j => edits[i].sentence_num # edits[j].sentence_num

\* C4: when WRITE transactions on different sentences of F have committed,
\* files/F is the initial content with their sentence edits applied one
\* after another in the order in which they took the coarse write lock
C4_CommitsAreSerial ==
  (~otherMut /\ DifferentSentences(log)) => files = ApplyEdits(initText, log)

\* two transactions on different sentences, the second committed onto the
\* first one's result
C4_Witness ==
  /\ ~otherMut
  /\ Len(log) = 2
  /\ DifferentSentences(log)
  /\ log[2].stale
  /\ files # initText

TextExpected5 ==
  <<"H","i"," ","O","n","e","."," ","T","w","o","."," ","N","e","w"," ",
    "T","h","r","e","e",".">>

Edit5a == [word_index |-> 0, content |-> TextHi]

Edit5b == [word_index |-> 0, content |-> TextNew]

\* C5: from "One. Two. Three.", WRITE 0 with {0, Hi} and a concurrent
\* WRITE 2 with {0, New}, both ended by ETIRW, leave
\* "Hi One. Two. New Three." in either commit order
C5_HiNewScenario ==
  ( /\ initText = TextOne
    /\ ~closedCommit
    /\ Len(log) = 2
    /\ log[2].stale
    /\ \E i, j \in 1..2 :
         /\ i # j
         /\ log[i].sentence_num = 0 /\ log[i].ops = <<Edit5a>>
         /\ log[j].sentence_num = 2 /\ log[j].ops = <<Edit5b>> )
     => files = TextExpected5

\* C6: after a successful WRITE commit, UNDO or REVERT, undo/F holds the
\* content files/F had immediately before that mutation, also when the
\* WRITE transactions on different sentences of F run concurrently
C6_UndoHoldsPrior ==
  (lastMut # NoMut /\ DifferentSentences(log)) => lastMut.undoAfter = lastMut.pre

\* C7: two consecutive successful UNDOs with no other mutation of F in
\* between leave files/F as it was before the first
C7_UndoUndoRestores ==
  undoPair # NoPair => undoPair.post = undoPair.pre

\* C8: files/F is never unlinked by DELETE while a swap file of F exists
C8_NoDeleteWhileSwap == ~delRace


\* C13: however a WRITE transaction ends, it leaves its sentence lock
\* released, the coarse write lock released and no swap file of its own: a
\* sentence that no running transaction holds is not locked and has no swap
\* file, and the coarse lock is held only by a transaction that is committing
C13_EndReleasesAll ==
  /\ \A n \in SentenceNums :
        (\A t \in Writers : ~(wtx[t].holds /\ wtx[t].sentence_num = n))
           => (n \notin locked /\ swap[n] = NoFile)
  /\ (\A t \in Writers : wtx[t].pc # "merge") => file_lock = None

-----------------------------------------------------------------------------
(* Properties of CHECKPOINT and REVERT *)

\* C14: the snapshot stored under a tag is written by at most one CHECKPOINT
\* request and never changes afterwards, whatever the interleaving
C14_TagWrittenOnce ==
  [][\A g \in Tags : checkpoints[g] # NoFile => checkpoints'[g] = checkpoints[g]]_vars

\* C15: a REVERT that answers success leaves files/F equal to the snapshot
\* stored under its tag, and leaves that snapshot as it was
C15_RevertRestoresSnapshot ==
  [][(op.pc = "rev2" /\ op'.pc = "idle" /\ op'.reply = "SUCCESS")
        => (files' = checkpoints[op.tag] /\ checkpoints' = checkpoints)]_vars

\* a REVERT has succeeded on a file that a WRITE had changed since the
\* checkpoint was taken
C15_Witness ==
  /\ op.pc = "idle"
  /\ op.reply = "SUCCESS"
  /\ lastMut.kind = "REVERT"
  /\ lastMut.pre # files
  /\ \E g \in Tags : files = checkpoints[g]

-----------------------------------------------------------------------------
(* Properties of READ *)

\* C11: a READ that completes while WRITE transactions are open and not yet
\* committed returns the content the last commit left (the initial content
\* when there was none): nothing of the open transactions' edits
C11_ReadSeesCommittedOnly ==
  (lastRead # NoRead /\ lastRead.openTx # {})
     => lastRead.content = lastRead.committed

\* a READ completed while a transaction that has changed its working
\* sentence, and already written it to its swap file, waits to commit
C11_Witness ==
  /\ lastRead # NoRead
  /\ \E t \in lastRead.openTx :
        /\ wtx[t].pc = "wrlock"
        /\ wtx[t].ops # <<>>
        /\ swap[wtx[t].sentence_num] # lastRead.content
  /\ \E t \in Writers : wtx[t].reply = "SUCCESS"

\* C12: the bytes one READ returns are those of one version of files/F, the
\* one the file had when the first chunk was read: nothing writes to the file
\* between the first and the last chunk
C12_ReadIsOneVersion ==
  lastRead # NoRead => lastRead.content = lastRead.version

-----------------------------------------------------------------------------
(* Properties of replication *)

\* C16: with the backup target online, after the last update or DELETE of F
\* on the primary the backup's files/F becomes equal to the primary's
\* (absent when the primary's is) and stays so
C16_BackupConverges ==
  []backup_up => <>[](bfile = files)

\* what does hold: the backup converges unless a DELETE unlinked files/F
\* under a WRITE transaction, whose commit then leaves a file with no
\* metadata that the worker refuses to send
BackupConvergesOutsideDeleteRace ==
  []backup_up => <>[](delRace \/ bfile = files)

\* C17: the jobs are processed in the order they were enqueued: no UPDATE is
\* processed again after a DELETE that was enqueued behind it has been
\* processed
C17_FifoWithRetries ==
  ~(rw.job = "retry" /\ delPassed)

\* C18: the worker never sends REPLICATE_FILE for a file whose local
\* metadata has is_backup = true
C18_NoBackupResend ==
  lastSend # NoSend => ~lastSend.is_backup

-----------------------------------------------------------------------------
(* Properties of recovery *)

\* C19: when the primary of d.txt reconnects after its backup has served the
\* file, the recovery the name server starts runs to RECOVERY_COMPLETE and
\* leaves the primary's d.txt equal to the backup's
C19_RecoveryRestores ==
  [][(/\ rec.pc = "sync" /\ rec'.pc = "done"
      /\ rec.R = dmap.primary_ss_id
      /\ rec.source = dmap.backup_ss_id
      /\ ss_node[rec.R].is_online /\ ss_node[rec.source].is_online
      /\ dfile[rec.source] # NoFile)
        => (rec'.complete /\ dfile'[rec.R] = dfile[rec.source])]_vars

\* the same for the content alone: the primary's d.txt after the transfer is
\* the backup's
RecoveryCopiesContent ==
  [][(/\ rec.pc = "sync" /\ rec'.pc = "done"
      /\ rec.R = dmap.primary_ss_id
      /\ rec.source = dmap.backup_ss_id
      /\ ss_node[rec.R].is_online /\ ss_node[rec.source].is_online
      /\ dfile[rec.source] # NoFile)
        => dfile'[rec.R] = dfile[rec.source]]_vars

\* C20: the server the name server asks to send the files back, and names in
\* SYNC_TO_PRIMARY, is the one whose id is the reconnecting server's
\* backup_ss_id
C20_SourceHoldsReplicas ==
  lastRecovery # NoRecovery => lastRecovery.source = lastRecovery.backup_ss_id

-----------------------------------------------------------------------------
(* Properties of placement, the file map and the ring *)

\* C21: while a recovery sync is running (from the name server's start of it
\* until the source has sent RECOVERY_COMPLETE) no CREATE is placed on the
\* reconnecting server or on the server holding its replicas
C21_NoPlacementDuringSync ==
  [][\A f \in CFiles :
       (rec.pc = "sync" /\ ring_file_map[f] = NoMap /\ ring_file_map'[f] # NoMap)
         => ring_file_map'[f].primary_ss_id \notin {rec.R, rec.source}]_vars

\* as long as the name server has not cleared the flags, placement does
\* leave both servers out
NoPlacementWhileFlagged ==
  [][\A f \in CFiles :
       (ring_file_map[f] = NoMap /\ ring_file_map'[f] # NoMap)
         => ~is_syncing[ring_file_map'[f].primary_ss_id]]_vars

\* C22: every file in a server's files/ directory has its file map record,
\* which names that server as primary when the server's metadata flags the
\* file is_backup = false and as backup when it flags it is_backup = true
C22_FilesMatchFileMap ==
  \A m \in Machines, f \in CFiles :
    /\ sfile[m][f] = "primary" => ring_file_map[f].primary_ss_id = m
    /\ sfile[m][f] = "backup" => ring_file_map[f].backup_ss_id = m

\* C23: a file record's backup_ss_id names the server to which the file's
\* primary currently sends its replicas
C23_RecordBackupIsTarget ==
  \A f \in CFiles :
    ring_file_map[f] # NoMap =>
      ring_file_map[f].backup_ss_id = ss_node[ring_file_map[f].primary_ss_id].backup_ss_id

C25_BackupIsPredecessor ==
  \A m \in Range(ring) :
    /\ ss_node[m].backup_ss_id = NoSS <=> Len(ring) = 1
    /\ ss_node[m].backup_ss_id # NoSS =>
         /\ ss_node[m].backup_ss_id \in Range(ring)
         /\ NextIn(ring, ss_node[m].backup_ss_id) = m

C25_Witness ==
  /\ Len(ring) = 3
  /\ reconnects > 0
  /\ \A m \in Range(ring) : ss_node[m].backup_ss_id # NextIn(ring, m)

\* C26: a server's file_count is the number of file map records whose
\* primary it is
C26_FileCountIsRecords ==
  \A m \in Range(ring) :
    ring_file_count[m] =
      Cardinality({f \in CFiles : ring_file_map[f].primary_ss_id = m})

\* a server that registered again has kept the count of its records
FileCountAfterReconnect ==
  \A m \in Range(ring) :
    (reconnects > 0 /\ ring_file_map["a"].primary_ss_id = m) => ring_file_count[m] > 0

\* C27: at most one connected session is logged in under a username: the
\* active flag of a username is set exactly while the session whose LOGIN
\* set it is connected, so a LOGIN for an active username fails and only
\* that session's disconnect clears the flag
C27_OneSessionPerUsername ==
  \A u \in LoginNames :
    LET logged == {s \in Sessions : session[s].state = "logged_in"
                                      /\ session[s].username = u}
        i == find_user(user_list, u)
        active == i # 0 /\ user_list[i].is_active
    IN  /\ Cardinality(logged) <= 1
        /\ active <=> logged # {}
        /\ active => logged = {holder[u]}

\* a LOGIN for a username has just failed while another session holds it
C27_Witness ==
  \E u \in LoginNames, s \in Sessions :
    /\ holder[u] # 0 /\ holder[u] # s
    /\ session[holder[u]] = [state |-> "logged_in", username |-> u]
    /\ session[s].state = "closed"
    /\ \E t \in Sessions \ {s, holder[u]} : session[t].state = "logged_in"

\* C28: after a CREATE F by U that was reported successful, the access table
\* holds rwo for (U, F), however many files U owns already
C28_CreateInsertsOwner ==
  lastCreate.reply = "OK" =>
    perm_tab[lastCreate.user][lastCreate.filename] = PermOwner

\* the same while the user's file table holds fewer than size / 2 entries
\* before the CREATE
CreateInsertsOwnerBelowHalf ==
  (lastCreate.reply = "OK"
     /\ Cardinality({f \in ANames : own_map[lastCreate.user][f]})
          <= FileTableSize \div 2)
    => perm_tab[lastCreate.user][lastCreate.filename] = PermOwner

\* C29: once the reply to a CREATE, WRITE, UNDO, REVERT or DELETE is sent,
\* metadata.db reflects the operation: for every file with no request under
\* way, a restart would load the entry as the last replied operation left it
C29_RepliedIsOnDisk ==
  \A f \in MFiles : ~InFlight(f) => metadata_table_load(mdb)[f] = acked[f]

\* with one request at a time, a restart after any reply loads the table
\* as it is in memory
RepliedIsOnDiskSeq ==
  (\A t \in MThreads : mth[t].pc = "idle") => metadata_table_load(mdb) = mtab

\* the records of C22 also fail where every record's backup is its
\* primary's target
FilesMatchWhereTargetsMatch == C23_RecordBackupIsTarget => C22_FilesMatchFileMap

\* C30: a REPLICATE_FILE or DELETE_FILE received from a peer leaves every
\* file the receiving server holds as a primary copy in place and flagged
\* is_backup = false
C30_ReplicationSparesPrimary ==
  [][(cops' = cops /\ ss_node' = ss_node /\ rec' = rec)
       => \A m \in Machines, f \in CFiles :
            sfile[m][f] = "primary" => sfile'[m][f] = "primary"]_vars

-----------------------------------------------------------------------------
(* Properties of the name server *)

Letters(perms) == {perms[i] : i \in 1..Len(perms)}

\* what the access entry permits
Allowed(type, perms) ==
  CASE type = "READ" -> Letters(perms) \cap {"r", "o"} # {}
    [] type = "WRITE" -> Letters(perms) \cap {"w", "o"} # {}
    [] type = "DELETE" -> "o" \in Letters(perms)
    [] OTHER -> FALSE

Accepted(reply) == reply \in {"SS_LOC", "OK", "DATA"}

\* C9, the direction that protects the file: a READ, WRITE or DELETE that
\* the name server or a storage server accepts is one the requester's
\* access entry permits (r or o, w or o, o respectively)
C9_AcceptedOnlyIfPermitted ==
  (lastReq.type \in {"READ", "WRITE", "DELETE"} /\ Accepted(lastReq.reply))
     => Allowed(lastReq.type, lastReq.perms)

\* C10: a file keeps the content its own owner's operations gave it,
\* whatever is done to a file of the same name of another owner
C10_SameNameIndependent ==
  \A o \in Users, f \in Filenames :
     file_map[o][f] # 0 => ss_files[file_map[o][f]][f] = own[o][f]

-----------------------------------------------------------------------------
(* Properties of failed requests, of the access table and of a recovery *)

\* C31: a request that ends without changing files/F leaves undo/F alone: the
\* step in which a WRITE transaction ends with anything but success changes
\* neither file
C31_FailedWriteKeepsUndo ==
  [][(\E t \in Writers : /\ wtx[t].pc # "idle"
                         /\ wtx'[t].pc = "idle"
                         /\ wtx'[t].reply # "SUCCESS"
                         /\ files' = files)
       => undo' = undo]_vars

\* the same for a REVERT to a tag that has no checkpoint
FailedRevertKeepsUndo ==
  [][(op.pc = "idle" /\ op'.pc = "rev2" /\ checkpoints[op'.tag] = NoFile)
       => undo' = undo]_vars

\* C32: while the file map holds a record (U, F), U's access entry for F
\* contains 'o'
C32_OwnerKeepsEntry ==
  \A u \in Users, f \in Filenames :
     file_map_table_search(u, f) # 0 => is_owner(u, f)

C34_SavedCountIsEntries == mdb.count = Len(mdb.entries)

-----------------------------------------------------------------------------
(* Properties of the heartbeat handling *)

\* C35: a storage server that has registered again and sends its heartbeats
\* on the new connection is marked online with that connection as its
\* socket, and the socket is open
C35_ReRegisteredStaysOnline ==
  \A c \in Conns :
     (c > 1 /\ hb_link[c] = "live") => (hb_online /\ hb_sock = c /\ hb_open[c])

\* the monitor alone does not take a server with a live connection offline
MonitorSparesLive ==
  [][(\E c \in Conns : hb_link[c] = "live") /\ hb_thread' = hb_thread
       => hb_online' = hb_online]_vars

-----------------------------------------------------------------------------
(* Properties of the answers to WRITE and WRITE_DATA *)

\* the rule for index n on a file of k sentences: 0 <= n < k, or n = k with
\* the file empty or its last sentence ending with a delimiter
IndexAccepted(text, n) ==
  LET sentences == ss_split_sentences(text)
      k == Len(sentences)
  IN  \/ 0 <= n /\ n < k
      \/ n = k /\ (k = 0 \/ (Len(sentences[k]) > 0
                              /\ IsDelim(sentences[k][Len(sentences[k])])))

\* the request of writer t is answered in this step
WriteAnswered(t) ==
  /\ wtx[t].pc \in {"trylock", "copyswap", "copyundo"}
  /\ wtx'[t].pc \in {"idle", "open"}
  /\ files # NoFile

\* C36: a WRITE for index n is answered with WRITE_OK, and opens its
\* transaction, exactly if the rule accepts n; any other n is answered with
\* an error and opens no transaction
C36_WriteOkIffIndexAccepted ==
  [][\A t \in Writers :
       WriteAnswered(t) =>
         IF IndexAccepted(files, wtx[t].sentence_num)
         THEN wtx'[t].pc = "open" /\ wtx'[t].reply = "WRITE_OK"
         ELSE wtx'[t].pc = "idle" /\ wtx'[t].reply \in {"FAIL", "WRITE_LOCKED"}]_vars

\* for the indexes from 0 on the answers follow the rule
NonNegativeIndexFollowsRule ==
  [][\A t \in Writers :
       (WriteAnswered(t) /\ wtx[t].sentence_num >= 0) =>
         IF IndexAccepted(files, wtx[t].sentence_num)
         THEN wtx'[t].pc = "open" /\ wtx'[t].reply = "WRITE_OK"
         ELSE wtx'[t].pc = "idle" /\ wtx'[t].reply = "FAIL"]_vars

\* the word indexes a WRITE_DATA may name: 0 up to the number of words
WordIndexInRange(words, msg) == 0 <= msg.word_index /\ msg.word_index <= Len(words)

\* writer t receives a WRITE_DATA in this step
DataReceived(t) ==
  /\ wtx[t].pc = "open"
  /\ Len(wtx'[t].ops) = Len(wtx[t].ops) + 1

\* C37: a WRITE_DATA with a word index out of range is answered with an
\* error and changes neither the working sentence nor the transaction, which
\* stays open; whatever errors came before, a WRITE_DATA with an index in
\* range is inserted at its index and WRITE_ETIRW ends the input with the
\* working sentence put in place of sentence n
C37_BadWordIndexFailsAlone ==
  [][\A t \in Writers :
       LET w == wtx[t]
           msg == wtx'[t].ops[Len(wtx'[t].ops)]
       IN
       /\ (DataReceived(t) /\ ~WordIndexInRange(w.words, msg))
            => /\ wtx'[t].reply = "DATA_ERROR"
               /\ wtx'[t] = [w EXCEPT !.ops = wtx'[t].ops, !.reply = "DATA_ERROR"]
               /\ <<files, undo, swap, locked>>' = <<files, undo, swap, locked>>
       /\ (DataReceived(t) /\ WordIndexInRange(w.words, msg))
            => /\ wtx'[t].pc = "open"
               /\ wtx'[t].words = SubSeq(w.words, 1, msg.word_index)
                                    \o ss_split_words(msg.content)
                                    \o SubSeq(w.words, msg.word_index + 1, Len(w.words))
       /\ (w.pc = "open" /\ wtx'[t].pc = "wrlock")
            => swap'[w.sentence_num] =
                 ss_join_sentences(Splice(w.sentences, w.sentence_num,
                                          ss_join_words(w.words)))]_vars

\* a transaction that has ended its input after a WRITE_DATA out of range
\* followed by one that was inserted
C37_Witness ==
  \E t \in Writers :
     /\ wtx[t].pc = "wrlock"
     /\ ~wtx[t].closed
     /\ Len(wtx[t].ops) = 2
     /\ ~WordIndexInRange(InitialWords(wtx[t].sentences, wtx[t].sentence_num),
                          wtx[t].ops[1])
     /\ wtx[t].words # InitialWords(wtx[t].sentences, wtx[t].sentence_num)
     /\ wtx[t].reply = "DATA_ERROR"

-----------------------------------------------------------------------------
(* Properties of the chunks of a READ *)

\* C38: the chunks sent in answer to a READ end with exactly one chunk whose
\* final flag is set, the last one; for an empty file that chunk is the only
\* one and it is empty
C38_OneFinalChunkLast ==
  [][(rd.pc = "close" /\ rd'.pc = "idle")
       => /\ rd.flags # <<>>
          /\ rd.flags[Len(rd.flags)]
          /\ \A i \in 1..(Len(rd.flags) - 1) : ~rd.flags[i]
          /\ rd.snap = <<>> => (rd.flags = <<TRUE>> /\ rd.got = <<>>)]_vars

\* a file whose size is not a multiple of the chunk size is answered so
FinalChunkUnlessMultiple ==
  [][(rd.pc = "close" /\ rd'.pc = "idle"
      /\ (Len(rd.got) % MaxChunk # 0 \/ rd.got = <<>>))
       => /\ rd.flags # <<>>
          /\ rd.flags[Len(rd.flags)]
          /\ \A i \in 1..(Len(rd.flags) - 1) : ~rd.flags[i]]_vars

-----------------------------------------------------------------------------
(* Properties of the replication retries *)

\* the worker puts the update back at the tail of the queue in this step
Requeued ==
  /\ Len(repl_queue') = Len(repl_queue) + 1
  /\ repl_queue'[Len(repl_queue')] = "retry"

\* C39: the retry count of the file starts at 0, never goes down and never
\* exceeds 5; every re-enqueue of an update after a failed connect adds one to
\* it, and with the count at 5 the update is dropped: at most 5 re-enqueues
\* happen as long as the server runs
C39_RetriesBounded ==
  [][/\ retry_count' >= retry_count
     /\ retry_count' <= RetryLimit
     /\ Requeued => (rw.pc = "connect" /\ ~backup_up /\ retry_count' = retry_count + 1)
     /\ (rw.pc = "connect" /\ rw'.pc = "idle" /\ ~backup_up /\ retry_count = RetryLimit)
          => repl_queue' = repl_queue]_vars

\* the update has been re-enqueued 5 times and then dropped, the backup
\* target still refusing connections
C39_Witness ==
  /\ retry_count = RetryLimit
  /\ ~backup_up
  /\ rw.pc = "idle"
  /\ rw.job = "retry"
  /\ repl_queue = <<>>
  /\ files # NoFile

-----------------------------------------------------------------------------
(* Properties of the locks.                                                 *)

\* the thread has called a lock function that has not returned
LkBlocked(t) ==
  /\ LkRunning(t)
  /\ LkCall(t)[1] \in {"lock", "rdlock", "wrlock"}
  /\ ~LkFree(LkCall(t))

\* C40: no set of threads waits forever on each other's locks: in every
\* nonempty set of threads one is not waiting, or waits for a lock held by
\* a thread outside the set
C40_NoCyclicWait ==
  \A S \in (SUBSET LkThreads) \ {{}} :
    \E t \in S : ~LkBlocked(t) \/ ~(lk_held[LkCall(t)[2]] \subseteq S)

\* a writer that holds its sentence mutex waits for the file's write lock,
\* which a second thread holds while it waits for a bucket lock that a
\* saving third thread holds with the count lock
C40_Witness ==
  \E a, b, c \in LkThreads :
    /\ lk_pc[a].h.fn = "write" /\ a \in lk_held[lk_pc[a].h.sentence]
    /\ LkBlocked(a) /\ LkCall(a)[2] = "file"
    /\ lk_held["file"] = {b} /\ LkBlocked(b) /\ LkCall(b)[2] = "bucket0"
    /\ lk_held["bucket0"] = {c} /\ lk_held["bucket1"] = {c}
    /\ lk_held["count"] = {c}

\* on the name server a thread that holds the list mutex waits for the
\* cache mutex, which a thread in its first cache lookup holds
LkNameServerChain ==
  \E a, b \in LkThreads :
    /\ a \in lk_held["ss_list"] /\ LkBlocked(a) /\ LkCall(a)[2] = "cache"
    /\ lk_held["cache"] = {b} /\ lk_pc[b].h.fn = "find" /\ ~LkBlocked(b)

\* and a thread that holds the request mutex waits for the access-table
\* mutex, which a thread that changes a permission holds
LkAccessChain ==
  \E a, b \in LkThreads :
    /\ a \in lk_held["access_req"] /\ LkBlocked(a) /\ LkCall(a)[2] = "access_table"
    /\ lk_held["access_table"] = {b} /\ lk_pc[b].h.fn = "access"

=============================================================================
